---- MODULE Spec2Model ----
(***************************************************************************)
(* Verification model of the dora-yaki metrics pipeline: the sync-job      *)
(* lease (datastore/client.go), the job Sync handler and its target         *)
(* selection (api/handler/job.go) and the tiered response cache             *)
(* (api/middleware/cache.go).                                               *)
(*                                                                          *)
(* Time is counted in minutes.  A nil *time.Time and the zero time.Time{}   *)
(* are both written Nil (-1), which is before every real time (>= 0).       *)
(***************************************************************************)
EXTENDS Integers, Sequences, FiniteSets, Bags, TLC

\* ------------------------------------------------------------------ bounds

\* number of concurrent invocations of PUT /api/job/sync
NumInvocations == 2
\* number of callers contending for the lease alone
NumOwners == 3
\* the goroutines at the memory tier's map and the entries they may allocate
NumGoroutines == 3
MaxEntries == 2
MuMaxTicks == 1
MuTickMinutes == 60
\* the page size of the collector (100 in the source), the longest feed, and the
\* failures of a call of CollectAll
PerPage == 2
MaxFeedLen == 7
MaxFailFeedLen == 3
MaxFailingPage == 2
MaxItemFailures == 2
\* the half days that pass and the pull requests opened in the rollup model
RollMaxTicks == 3
MaxPRs == 2
\* the last instant (in half days) and the longest list given to a pure function
CalcMaxTime == 5
MaxCalcItems == 2
\* the last hour a timestamp of a pull request can hold
MaxHour == 2
\* the repositories whose rows of a day are merged
NumRepos == 2
\* the significant binary digits of a float64 in the model and the longest
\* series of durations
MantissaBits == 5
MaxSeries == 3
\* the hours of a window of thirty days
WindowHours == 720
\* the longest list handed to the bot filter
MaxActors == 3
\* the clock advances in steps of TickMinutes, at most MaxTicks times
MaxTicks == 2
TickMinutes == 5
\* the response cache: the clock's step and end, the versions of the data,
\* and the goroutines in flight at a time
CacheTickMinutes == 30
CacheMaxTicks == 2
MaxDataVersion == 1
MaxPutsInFlight == 1
MaxDeletesInFlight == 1

\* -------------------------------------------------------- program constants

processStartGuard == 10
\* the TTL the router gives the response cache, in minutes (router.go)
cacheTTLMinutes == 50
SyncLockTTLMinutes == 10
SyncIntervalMinutes == 60

Nil == -1
\* the wall-clock time T of the initial state, two hours after time 0
StartTime == 2 * 60
NoLock == [LockedBy |-> 0, LockedAt |-> Nil, ExpiresAt |-> Nil]
syncLockID == "sync-job"

SyncLockTTL == SyncLockTTLMinutes
SyncInterval == SyncIntervalMinutes

Invocations == 1..NumInvocations
Owners == 1..NumOwners

\* ------------------------------------------------------------ repositories

\* The registered repositories, in the order ListRepositories returns them.
RepoIds == 1..3
FullNameOf == <<"org/never", "org/old", "org/recent">>
NameOf == <<"never", "old", "recent">>

\* model.Repository as far as the scheduler reads and writes it
Repository(id, lastSynced, processStart) ==
    [ID |-> id, FullName |-> FullNameOf[id], Name |-> NameOf[id],
     LastSyncedAt |-> lastSynced, ProcessStartAt |-> processStart]

\* github.Client.GetRepository builds the entity from the platform's answer:
\* it carries neither LastSyncedAt nor ProcessStartAt.
GetRepository(id) == Repository(id, Nil, Nil)

\* ------------------------------------------------------- pickSyncTarget

matchRepoName(repo, name) == repo.FullName = name \/ repo.Name = name

\* the interval the selection uses: the request's when positive, else the configured one
syncIntervalOf(r) == IF r.Interval > 0 THEN r.Interval ELSE SyncInterval

recentlySynced(repo, r, t) ==
    repo.LastSyncedAt # Nil /\ t - repo.LastSyncedAt < syncIntervalOf(r)

recentlyStarted(repo, t) ==
    repo.ProcessStartAt # Nil /\ t - repo.ProcessStartAt < processStartGuard

\* mutant of pickNamed: force skips the interval check as well
RECURSIVE pickNamedForceSkipsAll(_, _, _, _)
pickNamedForceSkipsAll(repos, r, t, i) ==
    IF i > Len(repos) THEN 0
    ELSE IF ~matchRepoName(repos[i], r.Repo) THEN pickNamedForceSkipsAll(repos, r, t, i + 1)
    ELSE IF ~r.Force /\ recentlySynced(repos[i], r, t) THEN 0
    ELSE IF ~r.Force /\ recentlyStarted(repos[i], t) THEN 0
    ELSE i

\* the loop of the named branch: the first repository matching the name decides
RECURSIVE pickNamed(_, _, _, _)
pickNamed(repos, r, t, i) ==
    IF i > Len(repos) THEN 0
    ELSE IF ~matchRepoName(repos[i], r.Repo) THEN pickNamed(repos, r, t, i + 1)
    ELSE IF recentlySynced(repos[i], r, t) THEN 0
    ELSE IF ~r.Force /\ recentlyStarted(repos[i], t) THEN 0
    ELSE i

\* mutant of pickOldest: a never-synced repository is taken as the newest
RECURSIVE pickOldestNeverLast(_, _, _, _, _, _)
pickOldestNeverLast(repos, r, t, i, target, oldestSync) ==
    IF i > Len(repos) THEN target
    ELSE IF recentlySynced(repos[i], r, t)
         THEN pickOldestNeverLast(repos, r, t, i + 1, target, oldestSync)
    ELSE IF recentlyStarted(repos[i], t)
         THEN pickOldestNeverLast(repos, r, t, i + 1, target, oldestSync)
    ELSE LET repoSync == IF repos[i].LastSyncedAt = Nil THEN t + 1
                         ELSE repos[i].LastSyncedAt
         IN IF target = 0 \/ repoSync < oldestSync
            THEN pickOldestNeverLast(repos, r, t, i + 1, i, repoSync)
            ELSE pickOldestNeverLast(repos, r, t, i + 1, target, oldestSync)

\* mutant of pickOldest: a later candidate replaces the target when it is not older
RECURSIVE pickOldestNotBefore(_, _, _, _, _, _)
pickOldestNotBefore(repos, r, t, i, target, oldestSync) ==
    IF i > Len(repos) THEN target
    ELSE IF recentlySynced(repos[i], r, t)
         THEN pickOldestNotBefore(repos, r, t, i + 1, target, oldestSync)
    ELSE IF recentlyStarted(repos[i], t)
         THEN pickOldestNotBefore(repos, r, t, i + 1, target, oldestSync)
    ELSE LET repoSync == repos[i].LastSyncedAt
         IN IF target = 0 \/ ~(repoSync < oldestSync)
            THEN pickOldestNotBefore(repos, r, t, i + 1, i, repoSync)
            ELSE pickOldestNotBefore(repos, r, t, i + 1, target, oldestSync)

\* the loop of the unnamed branch, carrying (target, oldestSync)
RECURSIVE pickOldest(_, _, _, _, _, _)
pickOldest(repos, r, t, i, target, oldestSync) ==
    IF i > Len(repos) THEN target
    ELSE IF recentlySynced(repos[i], r, t)
         THEN pickOldest(repos, r, t, i + 1, target, oldestSync)
    ELSE IF recentlyStarted(repos[i], t)
         THEN pickOldest(repos, r, t, i + 1, target, oldestSync)
    ELSE LET repoSync == repos[i].LastSyncedAt
         IN IF target = 0 \/ repoSync < oldestSync
            THEN pickOldest(repos, r, t, i + 1, i, repoSync)
            ELSE pickOldest(repos, r, t, i + 1, target, oldestSync)

\* index into repos of the selected repository, 0 for nil
pickSyncTarget(repos, r, t) ==
    IF r.Repo # "" THEN pickNamed(repos, r, t, 1)
    ELSE pickOldest(repos, r, t, 1, 0, Nil)

\* ------------------------------------------------------------ sync state

VARIABLES
    now,        \* wall clock, minutes
    lock,       \* the SyncLock entity stored under syncLockID, or NoLock
    repoStore,  \* the Repository entities of the store, by id
    pc,         \* position of each invocation of JobHandler.Sync
    req,        \* the parsed jobSyncRequest of each invocation
    target,     \* the *model.Repository each invocation selected (its own copy)
    outcome,    \* what each invocation answered
    lease,      \* history: the lease an invocation's AcquireSyncLock wrote
    released,   \* history: what an invocation's ReleaseSyncLock found
    markSaved,  \* history: the process-start marker of the invocation was stored
    picks       \* history: the targets selected so far, in order

syncVars == <<now, lock, repoStore, pc, req, target, outcome, lease, released,
              markSaved, picks>>

\* the inputs and the result of one call of pickSyncTarget on its own
VARIABLES pickRepos, pickReq, pickNow, pickResult

pickVars == <<pickRepos, pickReq, pickNow, pickResult>>

\* the response cache: the clock, the memory tier (rc.entries), the durable
\* tier (the MetricsCache kind), the goroutines of storeAll and Invalidate that
\* have not finished, the version of the data the handlers read, and the last
\* response and the last two events at the cache (a request, Invalidate, a new
\* process, a step of the clock)
VARIABLES cacheNow, entries, dsMetricsCache, putsInFlight, deletesInFlight,
          dataVersion, lastResp, lastEvents

cacheVars == <<cacheNow, entries, dsMetricsCache, putsInFlight, deletesInFlight,
               dataVersion, lastResp, lastEvents>>

\* the memory tier's map under its reader/writer lock: who holds rc.mu, where
\* each goroutine stands in its call, the map (key to entry), the entries ever
\* allocated, and the clock
VARIABLES muReaders, muWriter, muPc, muOp, muMap, muHeap, muClock

muVars == <<muReaders, muWriter, muPc, muOp, muMap, muHeap, muClock>>

\* one call of the collector: the feed the platform serves, the sync range, the
\* calls that fail, and what the call returned
VARIABLES collFeed, collRange, collFails, collResult

collVars == <<collFeed, collRange, collFails, collResult>>

\* the daily rollups of one repository: the clock in half days, the pull
\* requests the platform holds (newest first), and the stored row of each day
VARIABLES rollNow, rollPRs, rollStore

rollVars == <<rollNow, rollPRs, rollStore>>

\* one call of a function of the calculator, the aggregator, the metrics handler
\* or the model package: its arguments and what it returned
VARIABLES calcIn, calcOut

calcVars == <<calcIn, calcOut>>

\* one call of syncSingleRepo and the marker written before it: where the call
\* stands, the repository as ListRepositories returned it, what the store holds
\* of the repository (its Repository entity and the version of each entity
\* class), the calls made on the datastore client with what each returned, and
\* the RepoSyncResult
VARIABLES ssPc, ssListed, ssStore, ssCalls, ssResult

saveVars == <<ssPc, ssListed, ssStore, ssCalls, ssResult>>

\* the scheduler's invocations, one after another for ever: the stored
\* repositories with their times as seen from the current invocation, where
\* the current invocation stands, the repository it selected, the repository
\* whose collection fails, the minutes between two invocations, and the
\* repositories selected so far
VARIABLES rcRepos, rcPc, rcTarget, rcFailing, rcPeriod, rcSelected

recurVars == <<rcRepos, rcPc, rcTarget, rcFailing, rcPeriod, rcSelected>>

otherThanSync == <<pickVars, cacheVars, muVars, collVars, rollVars, calcVars, saveVars, recurVars>>
otherThanPick == <<syncVars, cacheVars, muVars, collVars, rollVars, calcVars, saveVars, recurVars>>
otherThanCache == <<syncVars, pickVars, muVars, collVars, rollVars, calcVars, saveVars, recurVars>>
otherThanMu == <<syncVars, pickVars, cacheVars, collVars, rollVars, calcVars, saveVars, recurVars>>
otherThanColl == <<syncVars, pickVars, cacheVars, muVars, rollVars, calcVars, saveVars, recurVars>>
otherThanRoll == <<syncVars, pickVars, cacheVars, muVars, collVars, calcVars, saveVars, recurVars>>
otherThanCalc == <<syncVars, pickVars, cacheVars, muVars, collVars, rollVars, saveVars, recurVars>>
otherThanSave == <<syncVars, pickVars, cacheVars, muVars, collVars, rollVars, calcVars, recurVars>>
otherThanRecur == <<syncVars, pickVars, cacheVars, muVars, collVars, rollVars, calcVars, saveVars>>
vars == <<syncVars, pickVars, cacheVars, muVars, collVars, rollVars, calcVars, saveVars,
          recurVars>>

\* no call of the collector is modelled
CollIdle ==
    /\ collFeed = <<>>
    /\ collRange = ""
    /\ collFails = <<>>
    /\ collResult = <<>>

\* no call of syncSingleRepo on its own is modelled
SaveIdle ==
    /\ ssPc = ""
    /\ ssListed = <<>>
    /\ ssStore = <<>>
    /\ ssCalls = <<>>
    /\ ssResult = <<>>

\* no recurring invocation is modelled
RecurIdle ==
    /\ rcRepos = <<>>
    /\ rcPc = ""
    /\ rcTarget = 0
    /\ rcFailing = 0
    /\ rcPeriod = 0
    /\ rcSelected = {}

\* no rollup is modelled
RollIdle ==
    /\ rollNow = 0
    /\ rollPRs = <<>>
    /\ rollStore = <<>>

\* no call of a pure function is modelled
CalcIdle ==
    /\ calcIn = <<>>
    /\ calcOut = <<>>

\* no goroutine at the memory tier's map is modelled
MuIdle ==
    /\ muReaders = {}
    /\ muWriter = 0
    /\ muPc = <<>>
    /\ muOp = <<>>
    /\ muMap = <<>>
    /\ muHeap = <<>>
    /\ muClock = 0

\* no request to the response cache is modelled
CacheIdle ==
    /\ cacheNow = 0
    /\ entries = <<>>
    /\ dsMetricsCache = <<>>
    /\ putsInFlight = EmptyBag
    /\ deletesInFlight = EmptyBag
    /\ dataVersion = 0
    /\ lastResp = <<>>
    /\ lastEvents = <<>>

\* no invocation of Sync is modelled
SyncIdle ==
    /\ now = StartTime
    /\ lock = NoLock
    /\ repoStore = <<>>
    /\ pc = <<>>
    /\ req = <<>>
    /\ target = <<>>
    /\ outcome = <<>>
    /\ lease = <<>>
    /\ released = <<>>
    /\ markSaved = <<>>
    /\ picks = <<>>

\* no call of pickSyncTarget on its own is modelled
PickIdle ==
    /\ pickRepos = <<>>
    /\ pickReq = <<>>
    /\ pickNow = 0
    /\ pickResult = 0

NoTarget == [ID |-> 0, FullName |-> "", Name |-> "",
             LastSyncedAt |-> Nil, ProcessStartAt |-> Nil]
NoRequest == [Repo |-> "", Interval |-> 0, NoLock |-> FALSE, Force |-> FALSE,
              ClearCache |-> FALSE]

\* the requests the scheduler and an operator send
Requests ==
    { [Repo |-> "", Interval |-> 30, NoLock |-> FALSE, Force |-> FALSE,
       ClearCache |-> FALSE],
      [Repo |-> "", Interval |-> 30, NoLock |-> TRUE, Force |-> FALSE,
       ClearCache |-> FALSE],
      [Repo |-> "org/never", Interval |-> 0, NoLock |-> TRUE, Force |-> TRUE,
       ClearCache |-> FALSE] }

\* the same requests, with and without clear_cache=true
ClearCacheRequests ==
    Requests \cup {[r EXCEPT !.ClearCache = TRUE] : r \in Requests}

\* ListRepositories: the stored entities as a list
ListRepositories(store) == [id \in RepoIds |-> store[id]]

\* --------------------------------------------------------------- SyncLock

\* mutants of lockStillValid: the expiry test left out; the boundary taken as valid
lockStillValidNoTest(l, t) == FALSE
lockStillValidInclusive(l, t) == l # NoLock /\ t <= l.ExpiresAt

\* the callback's test "time.Now().Before(existing.ExpiresAt)" on an existing lock
lockStillValid(l, t) == l # NoLock /\ t < l.ExpiresAt

\* the lock AcquireSyncLock writes
newLock(lockedBy, t, ttl) ==
    [LockedBy |-> lockedBy, LockedAt |-> t, ExpiresAt |-> t + ttl]

\* AcquireSyncLock: the stored lock after the transaction (unchanged on error)
AcquireSyncLock(l, lockedBy, t, ttl) ==
    IF lockStillValid(l, t) THEN l ELSE newLock(lockedBy, t, ttl)

\* mutant of AcquireSyncLockOk: nil is returned whatever the callback found
AcquireSyncLockOkAlways(l, t) == TRUE

\* AcquireSyncLock's return value: TRUE for nil, FALSE for "lock already held by"
AcquireSyncLockOk(l, t) == ~lockStillValid(l, t)

\* mutant of ReleaseSyncLock: the owner is not compared
ReleaseSyncLockAnyOwner(l, lockedBy) == NoLock

\* ReleaseSyncLock: the stored lock after the transaction
ReleaseSyncLock(l, lockedBy) ==
    IF l = NoLock THEN l
    ELSE IF l.LockedBy # lockedBy THEN l
    ELSE NoLock

\* ------------------------------------------------------- ResponseCache

\* request URIs of one cached route: the same logical query with its
\* parameters in the order the web client appends them and in the order
\* url.Values.Encode gives them (sorted by key)
URIs == {"/api/metrics/cycle-time?repository=r&start=s&end=e",
         "/api/metrics/cycle-time?end=e&repository=r&start=s"}
Encode(uri) == "/api/metrics/cycle-time?end=e&repository=r&start=s"

\* the last two events, the latest last
after(event) == IF lastEvents = <<>> THEN <<event>> ELSE <<lastEvents[Len(lastEvents)], event>>

NoEntry == [body |-> <<>>, contentType |-> "", statusCode |-> 0, createdAt |-> Nil]
NoRecord == [Body |-> <<>>, CreatedAt |-> Nil, TTLSec |-> 0]
NoResponse == [key |-> "", tier |-> "", statusCode |-> 0,
               contentType |-> "", body |-> <<>>, calls |-> <<>>]

\* what the handler writes: respondJSON with the metrics of the logical query
\* over the data as it is, or http.Error when a store query fails
CycleTime(uri, ok) ==
    IF ok
    THEN [statusCode |-> 200, contentType |-> "application/json",
          body |-> <<Encode(uri), dataVersion>>]
    ELSE [statusCode |-> 500, contentType |-> "text/plain; charset=utf-8",
          body |-> <<"failed to get metrics">>]

\* mutant of getFromMemoryOk: the memory tier is not looked at
getFromMemoryOkNever(key) == FALSE

\* getFromMemory: an entry that is present and not older than the TTL
getFromMemoryOk(key) ==
    /\ entries[key] # NoEntry
    /\ ~(cacheNow - entries[key].createdAt > cacheTTLMinutes)

\* mutant of GetMetricsCacheOk: the age of the record is not tested
GetMetricsCacheOkAnyAge(key) == dsMetricsCache[key] # NoRecord

\* GetMetricsCache: a record that is present and not older than its TTL
GetMetricsCacheOk(key) ==
    /\ dsMetricsCache[key] # NoRecord
    /\ ~(cacheNow - dsMetricsCache[key].CreatedAt > dsMetricsCache[key].TTLSec)

\* mutant of promoted: the entry restored from the durable tier is not kept
promotedNotKept(key) == entries

\* getFromDatastore on a hit: the restored entry is put into the memory tier
promoted(key) ==
    [entries EXCEPT ![key] = [body |-> dsMetricsCache[key].Body,
                              contentType |-> "application/json",
                              statusCode |-> 200,
                              createdAt |-> cacheNow]]

\* the record PutMetricsCache builds when the goroutine of storeAll calls it
putOf(key, body) == [Key |-> key, Body |-> body, CreatedAt |-> cacheNow,
                     TTLSec |-> cacheTTLMinutes]

\* storeAll: the memory tier now, the durable tier by a goroutine
storeAll(key, cw) ==
    /\ BagCardinality(putsInFlight) < MaxPutsInFlight
    /\ entries' = [entries EXCEPT ![key] = [body |-> cw.body,
                                            contentType |-> cw.contentType,
                                            statusCode |-> cw.statusCode,
                                            createdAt |-> cacheNow]]
    /\ putsInFlight' = putsInFlight (+) SetToBag({putOf(key, cw.body)})

\* mutant of is2xx: every response counts as a success
is2xxAlways(cw) == TRUE

\* the test Middleware makes on the captured status before storeAll
is2xx(cw) == cw.statusCode >= 200 /\ cw.statusCode < 300

\* the response as the client gets it, with the calls Middleware made for it
respond(key, tier, e, calls) ==
    lastResp' = [key |-> key, tier |-> tier,
                 statusCode |-> e.statusCode, contentType |-> e.contentType,
                 body |-> e.body, calls |-> calls]

\* Middleware, a GET without refresh (cache.go 165-194)
Get(uri, dsOk, handlerOk) ==
    /\ LET key == uri
       IN IF getFromMemoryOk(key)
          THEN /\ respond(key, "memory", entries[key], <<"getFromMemory">>)
               /\ UNCHANGED <<entries, putsInFlight>>
          ELSE IF dsOk /\ GetMetricsCacheOk(key)
          THEN /\ entries' = promoted(key)
               /\ respond(key, "datastore", promoted(key)[key],
                          <<"getFromMemory", "getFromDatastore">>)
               /\ UNCHANGED putsInFlight
          ELSE LET cw == CycleTime(uri, handlerOk)
               IN IF is2xx(cw)
                  THEN /\ respond(key, "handler", cw,
                                  <<"getFromMemory", "getFromDatastore",
                                    "next.ServeHTTP", "storeAll">>)
                       /\ storeAll(key, cw)
                  ELSE /\ respond(key, "handler", cw,
                                  <<"getFromMemory", "getFromDatastore",
                                    "next.ServeHTTP">>)
                       /\ UNCHANGED <<entries, putsInFlight>>
    /\ lastEvents' = after("get")
    /\ UNCHANGED <<cacheNow, dsMetricsCache, deletesInFlight, dataVersion>>
    /\ UNCHANGED otherThanCache

\* Middleware, a GET with refresh=true: the parameter is removed and the query
\* re-encoded before the handler runs and the key is taken (cache.go 151-163)
GetRefresh(uri, handlerOk) ==
    /\ LET key == Encode(uri)
           cw == CycleTime(uri, handlerOk)
       IN IF is2xx(cw)
          THEN /\ respond(key, "handler", cw, <<"next.ServeHTTP", "storeAll">>)
               /\ storeAll(key, cw)
          ELSE /\ respond(key, "handler", cw, <<"next.ServeHTTP">>)
               /\ UNCHANGED <<entries, putsInFlight>>
    /\ lastEvents' = after("refresh")
    /\ UNCHANGED <<cacheNow, dsMetricsCache, deletesInFlight, dataVersion>>
    /\ UNCHANGED otherThanCache

\* the goroutine of storeAll ends: PutMetricsCache has stored the record or
\* has failed, which is logged
PutMetricsCache(p, ok) ==
    /\ BagIn(p, putsInFlight)
    /\ putsInFlight' = putsInFlight (-) SetToBag({p})
    /\ dsMetricsCache' = IF ok
                         THEN [dsMetricsCache EXCEPT ![p.Key] =
                                 [Body |-> p.Body, CreatedAt |-> p.CreatedAt,
                                  TTLSec |-> p.TTLSec]]
                         ELSE dsMetricsCache
    /\ UNCHANGED <<cacheNow, entries, deletesInFlight, dataVersion, lastResp, lastEvents>>
    /\ UNCHANGED otherThanCache

\* the goroutine Invalidate starts: it has not listed the keys yet; existed
\* remembers the keys that had a record when Invalidate was called
newDelete ==
    [listed |-> FALSE, keys |-> {},
     existed |-> {k \in URIs : dsMetricsCache[k] # NoRecord}]

\* mutant of Invalidate: the map is left as it is
InvalidateKeepsMemory ==
    /\ BagCardinality(deletesInFlight) < MaxDeletesInFlight
    /\ deletesInFlight' = deletesInFlight (+) SetToBag({newDelete})
    /\ lastEvents' = after("invalidate")
    /\ UNCHANGED <<cacheNow, entries, dsMetricsCache, putsInFlight, dataVersion, lastResp>>
    /\ UNCHANGED otherThanCache

\* Invalidate: the memory tier is replaced by an empty map and a goroutine is
\* started for the durable tier
Invalidate ==
    /\ BagCardinality(deletesInFlight) < MaxDeletesInFlight
    /\ entries' = [k \in URIs |-> NoEntry]
    /\ deletesInFlight' = deletesInFlight (+) SetToBag({newDelete})
    /\ lastEvents' = after("invalidate")
    /\ UNCHANGED <<cacheNow, dsMetricsCache, putsInFlight, dataVersion, lastResp>>
    /\ UNCHANGED otherThanCache

\* DeleteAllMetricsCache, the keys-only query: it fails, finds nothing, or
\* hands the keys it found to DeleteMulti
DeleteAllList(d, ok) ==
    /\ BagIn(d, deletesInFlight)
    /\ ~d.listed
    /\ LET keys == {k \in URIs : dsMetricsCache[k] # NoRecord}
       IN deletesInFlight' =
            IF ok /\ keys # {}
            THEN (deletesInFlight (-) SetToBag({d}))
                    (+) SetToBag({[listed |-> TRUE, keys |-> keys, existed |-> d.existed]})
            ELSE deletesInFlight (-) SetToBag({d})
    /\ UNCHANGED <<cacheNow, entries, dsMetricsCache, putsInFlight, dataVersion,
                   lastResp, lastEvents>>
    /\ UNCHANGED otherThanCache

\* DeleteAllMetricsCache, DeleteMulti of the keys found
DeleteAllMulti(d, ok) ==
    /\ BagIn(d, deletesInFlight)
    /\ d.listed
    /\ deletesInFlight' = deletesInFlight (-) SetToBag({d})
    /\ dsMetricsCache' = IF ok
                         THEN [k \in URIs |-> IF k \in d.keys THEN NoRecord
                                              ELSE dsMetricsCache[k]]
                         ELSE dsMetricsCache
    /\ UNCHANGED <<cacheNow, entries, putsInFlight, dataVersion, lastResp, lastEvents>>
    /\ UNCHANGED otherThanCache

\* one round of the cleanup loop
cleanup ==
    /\ entries' = [k \in URIs |->
                     IF entries[k] # NoEntry
                        /\ cacheNow - entries[k].createdAt > cacheTTLMinutes
                     THEN NoEntry ELSE entries[k]]
    /\ UNCHANGED <<cacheNow, dsMetricsCache, putsInFlight, deletesInFlight,
                   dataVersion, lastResp, lastEvents>>
    /\ UNCHANGED otherThanCache

\* a process starts: its memory tier is empty, the durable tier is the one
\* every process shares
NewResponseCache ==
    /\ entries' = [k \in URIs |-> NoEntry]
    /\ lastEvents' = after("new")
    /\ UNCHANGED <<cacheNow, dsMetricsCache, putsInFlight, deletesInFlight,
                   dataVersion, lastResp>>
    /\ UNCHANGED otherThanCache

\* a sync stores new data: the handlers' output changes
DataChange ==
    /\ dataVersion < MaxDataVersion
    /\ dataVersion' = dataVersion + 1
    /\ UNCHANGED <<cacheNow, entries, dsMetricsCache, putsInFlight, deletesInFlight,
                   lastResp, lastEvents>>
    /\ UNCHANGED otherThanCache

\* time passes; the goroutines' contexts end after 10 and 30 seconds, so none
\* is in flight across a step of the clock
CacheTick ==
    /\ cacheNow < CacheMaxTicks * CacheTickMinutes
    /\ putsInFlight = EmptyBag
    /\ deletesInFlight = EmptyBag
    /\ cacheNow' = cacheNow + CacheTickMinutes
    /\ lastEvents' = after("tick")
    /\ UNCHANGED <<entries, dsMetricsCache, putsInFlight, deletesInFlight,
                   dataVersion, lastResp>>
    /\ UNCHANGED otherThanCache

CacheInit ==
    /\ cacheNow = 0
    /\ entries = [k \in URIs |-> NoEntry]
    /\ dsMetricsCache = [k \in URIs |-> NoRecord]
    /\ putsInFlight = EmptyBag
    /\ deletesInFlight = EmptyBag
    /\ dataVersion = 0
    /\ lastResp = NoResponse
    /\ lastEvents = <<>>
    /\ SyncIdle
    /\ PickIdle
    /\ MuIdle
    /\ CollIdle
    /\ RollIdle
    /\ CalcIdle
    /\ SaveIdle
    /\ RecurIdle

CacheNext ==
    \/ \E uri \in URIs, dsOk \in BOOLEAN, handlerOk \in BOOLEAN : Get(uri, dsOk, handlerOk)
    \/ \E uri \in URIs, handlerOk \in BOOLEAN : GetRefresh(uri, handlerOk)
    \/ \E p \in BagToSet(putsInFlight), ok \in BOOLEAN : PutMetricsCache(p, ok)
    \/ Invalidate
    \/ \E d \in BagToSet(deletesInFlight), ok \in BOOLEAN : DeleteAllList(d, ok)
    \/ \E d \in BagToSet(deletesInFlight), ok \in BOOLEAN : DeleteAllMulti(d, ok)
    \/ cleanup
    \/ NewResponseCache
    \/ DataChange
    \/ CacheTick

SpecCache == CacheInit /\ [][CacheNext]_vars

\* the response cache over a store whose keys-only query and DeleteMulti do
\* not fail, with the goroutine of Invalidate running to its end
ListsKeys == \E d \in BagToSet(deletesInFlight) : DeleteAllList(d, TRUE)
DeletesKeys == \E d \in BagToSet(deletesInFlight) : DeleteAllMulti(d, TRUE)

CacheLiveNext ==
    \/ \E uri \in URIs, dsOk \in BOOLEAN, handlerOk \in BOOLEAN : Get(uri, dsOk, handlerOk)
    \/ \E uri \in URIs, handlerOk \in BOOLEAN : GetRefresh(uri, handlerOk)
    \/ \E p \in BagToSet(putsInFlight), ok \in BOOLEAN : PutMetricsCache(p, ok)
    \/ Invalidate
    \/ ListsKeys
    \/ DeletesKeys
    \/ cleanup
    \/ NewResponseCache
    \/ DataChange
    \/ CacheTick

SpecCacheLive ==
    /\ CacheInit
    /\ [][CacheLiveNext]_vars
    /\ WF_vars(ListsKeys)
    /\ WF_vars(DeletesKeys)

\* ------------------------------------------------------- JobHandler.Sync

SyncInit ==
    /\ now = StartTime
    /\ lock = NoLock
    /\ repoStore = [id \in RepoIds |->
                      Repository(id,
                                 CASE id = 1 -> Nil
                                   [] id = 2 -> StartTime - 120
                                   [] OTHER -> StartTime - 60,
                                 Nil)]
    /\ pc = [i \in Invocations |-> "idle"]
    /\ req = [i \in Invocations |-> NoRequest]
    /\ target = [i \in Invocations |-> NoTarget]
    /\ outcome = [i \in Invocations |-> "none"]
    /\ lease = [i \in Invocations |-> NoLock]
    /\ released = [i \in Invocations |-> "none"]
    /\ markSaved = [i \in Invocations |-> FALSE]
    /\ picks = <<>>
    /\ PickIdle
    /\ CacheIdle
    /\ MuIdle
    /\ CollIdle
    /\ RollIdle
    /\ CalcIdle
    /\ SaveIdle
    /\ RecurIdle

\* time passes
Tick ==
    /\ now < StartTime + MaxTicks * TickMinutes
    /\ now' = now + TickMinutes
    /\ UNCHANGED <<lock, repoStore, pc, req, target, outcome, lease, released,
                   markSaved, picks>>
    /\ UNCHANGED otherThanSync

\* mutant of afterAnswer: no release is deferred
afterAnswerNoDefer(i) == "done"

\* the position after the handler has answered: the deferred release, if any
afterAnswer(i) == IF req[i].NoLock THEN "done" ELSE "release"

\* mutant of SyncBegin: the release is deferred before the lock is acquired
SyncBeginDefersFirst(i, r) ==
    /\ pc[i] = "idle"
    /\ req' = [req EXCEPT ![i] = r]
    /\ IF r.NoLock
       THEN /\ pc' = [pc EXCEPT ![i] = "list"]
            /\ UNCHANGED <<lock, lease, outcome>>
       ELSE /\ lock' = AcquireSyncLock(lock, i, now, SyncLockTTL)
            /\ IF AcquireSyncLockOk(lock, now)
               THEN /\ pc' = [pc EXCEPT ![i] = "list"]
                    /\ lease' = [lease EXCEPT ![i] = lock']
                    /\ UNCHANGED outcome
               ELSE /\ pc' = [pc EXCEPT ![i] = "release"]
                    /\ outcome' = [outcome EXCEPT ![i] = "skipped"]
                    /\ UNCHANGED lease
    /\ UNCHANGED <<now, repoStore, target, released, markSaved, picks>>
    /\ UNCHANGED otherThanSync

\* Sync, request parsing and lock acquisition (job.go 141-175)
SyncBegin(i, r) ==
    /\ pc[i] = "idle"
    /\ req' = [req EXCEPT ![i] = r]
    /\ IF r.NoLock
       THEN /\ pc' = [pc EXCEPT ![i] = "list"]
            /\ UNCHANGED <<lock, lease, outcome>>
       ELSE /\ lock' = AcquireSyncLock(lock, i, now, SyncLockTTL)
            /\ IF AcquireSyncLockOk(lock, now)
               THEN /\ pc' = [pc EXCEPT ![i] = "list"]
                    /\ lease' = [lease EXCEPT ![i] = lock']
                    /\ UNCHANGED outcome
               ELSE /\ pc' = [pc EXCEPT ![i] = "done"]
                    /\ outcome' = [outcome EXCEPT ![i] = "skipped"]
                    /\ UNCHANGED lease
    /\ UNCHANGED <<now, repoStore, target, released, markSaved, picks>>
    /\ UNCHANGED otherThanSync

\* ListRepositories fails: http.Error 500 (job.go 178-183)
SyncListFails(i) ==
    /\ pc[i] = "list"
    /\ pc' = [pc EXCEPT ![i] = afterAnswer(i)]
    /\ outcome' = [outcome EXCEPT ![i] = "error500"]
    /\ UNCHANGED <<now, lock, repoStore, req, target, lease, released, markSaved, picks>>
    /\ UNCHANGED otherThanSync

\* ListRepositories succeeds, pickSyncTarget, target.ProcessStartAt = &now (job.go 178-206)
SyncSelect(i) ==
    /\ pc[i] = "list"
    /\ LET repos == ListRepositories(repoStore)
           k == pickSyncTarget(repos, req[i], now)
       IN IF k = 0
          THEN /\ pc' = [pc EXCEPT ![i] = afterAnswer(i)]
               /\ outcome' = [outcome EXCEPT ![i] = "noTarget"]
               /\ UNCHANGED <<target, picks>>
          ELSE /\ pc' = [pc EXCEPT ![i] = "mark"]
               /\ target' = [target EXCEPT ![i] = [repos[k] EXCEPT !.ProcessStartAt = now]]
               /\ picks' = Append(picks, <<i, repos[k].ID>>)
               /\ UNCHANGED outcome
    /\ UNCHANGED <<now, lock, repoStore, req, lease, released, markSaved>>
    /\ UNCHANGED otherThanSync

\* SaveRepository(target), the sync start marker; a failure is logged (job.go 207-209)
SyncMark(i, ok) ==
    /\ pc[i] = "mark"
    /\ pc' = [pc EXCEPT ![i] = "collect"]
    /\ IF ok
       THEN /\ repoStore' = [repoStore EXCEPT ![target[i].ID] = target[i]]
            /\ markSaved' = [markSaved EXCEPT ![i] = TRUE]
       ELSE UNCHANGED <<repoStore, markSaved>>
    /\ UNCHANGED <<now, lock, req, target, outcome, lease, released, picks>>
    /\ UNCHANGED otherThanSync

\* mutant of SyncCollectFails: the collector's error is answered with a bare 500
SyncCollectFailsBare(i) ==
    /\ pc[i] = "collect"
    /\ pc' = [pc EXCEPT ![i] = IF req[i].NoLock THEN "done" ELSE "release"]
    /\ outcome' = [outcome EXCEPT ![i] = "error500"]
    /\ UNCHANGED <<now, lock, repoStore, req, target, lease, released, markSaved, picks>>
    /\ UNCHANGED otherThanSync

\* syncSingleRepo: CollectAll returns an error; the result carries it (job.go 342-359)
SyncCollectFails(i) ==
    /\ pc[i] = "collect"
    /\ pc' = [pc EXCEPT ![i] = afterAnswer(i)]
    /\ outcome' = [outcome EXCEPT ![i] = "syncFailed"]
    /\ UNCHANGED <<now, lock, repoStore, req, target, lease, released, markSaved, picks>>
    /\ UNCHANGED otherThanSync

\* syncSingleRepo: CollectAll returns the data; data.Repository is GetRepository's (job.go 351)
SyncCollect(i) ==
    /\ pc[i] = "collect"
    /\ pc' = [pc EXCEPT ![i] = "saveRepository"]
    /\ UNCHANGED <<now, lock, repoStore, req, target, outcome, lease, released,
                   markSaved, picks>>
    /\ UNCHANGED otherThanSync

\* SaveRepository(data.Repository); a failure is logged (job.go 362-364)
SyncSaveRepository(i, ok) ==
    /\ pc[i] = "saveRepository"
    /\ pc' = [pc EXCEPT ![i] = "saveEntities"]
    /\ repoStore' = IF ok
                    THEN [repoStore EXCEPT ![target[i].ID] = GetRepository(target[i].ID)]
                    ELSE repoStore
    /\ UNCHANGED <<now, lock, req, target, outcome, lease, released, markSaved, picks>>
    /\ UNCHANGED otherThanSync

\* SavePullRequests, SaveReviews, SaveDeployments, SaveTeamMembers and
\* SaveDailyMetricsBatch: each is attempted whatever the one before returned,
\* and none of them reads or writes a Repository entity or the lock (job.go 365-392)
SyncSaveEntities(i) ==
    /\ pc[i] = "saveEntities"
    /\ pc' = [pc EXCEPT ![i] = "saveLastSynced"]
    /\ UNCHANGED <<now, lock, repoStore, req, target, outcome, lease, released,
                   markSaved, picks>>
    /\ UNCHANGED otherThanSync

\* h.cache.Invalidate() as the handler calls it: the memory tier is replaced by
\* an empty map and a goroutine is started for the durable tier (job.go 216)
cacheInvalidate ==
    /\ BagCardinality(deletesInFlight) < MaxDeletesInFlight
    /\ entries' = [k \in URIs |-> NoEntry]
    /\ deletesInFlight' = deletesInFlight (+) SetToBag({newDelete})
    /\ UNCHANGED <<cacheNow, dsMetricsCache, putsInFlight, dataVersion, lastResp,
                   lastEvents>>
    /\ UNCHANGED <<pickVars, muVars, collVars, rollVars, calcVars, saveVars, recurVars>>

\* mutant of SyncSaveLastSynced: the cache is invalidated whatever the flag
SyncSaveLastSyncedClearsAlways(i, ok) ==
    /\ pc[i] = "saveLastSynced"
    /\ pc' = [pc EXCEPT ![i] = afterAnswer(i)]
    /\ repoStore' = IF ok
                    THEN [repoStore EXCEPT ![target[i].ID] =
                            [GetRepository(target[i].ID) EXCEPT !.LastSyncedAt = now]]
                    ELSE repoStore
    /\ outcome' = [outcome EXCEPT ![i] = "synced"]
    /\ UNCHANGED <<now, lock, req, target, lease, released, markSaved, picks>>
    /\ cacheInvalidate

\* data.Repository.LastSyncedAt = &now; SaveRepository; result.Success = true;
\* h.cache.Invalidate() if the request set clear_cache; the handler answers
\* "completed" with the result (job.go 394-413, 214-245)
SyncSaveLastSynced(i, ok) ==
    /\ pc[i] = "saveLastSynced"
    /\ pc' = [pc EXCEPT ![i] = afterAnswer(i)]
    /\ repoStore' = IF ok
                    THEN [repoStore EXCEPT ![target[i].ID] =
                            [GetRepository(target[i].ID) EXCEPT !.LastSyncedAt = now]]
                    ELSE repoStore
    /\ outcome' = [outcome EXCEPT ![i] = "synced"]
    /\ UNCHANGED <<now, lock, req, target, lease, released, markSaved, picks>>
    /\ IF req[i].ClearCache THEN cacheInvalidate ELSE UNCHANGED otherThanSync

\* what ReleaseSyncLock finds stored
releaseFinds(l, lockedBy) ==
    IF l = NoLock THEN "absent"
    ELSE IF l.LockedBy # lockedBy THEN "notOwner"
    ELSE "deleted"

\* the deferred ReleaseSyncLock of an invocation that acquired the lock (job.go 170-174)
SyncRelease(i) ==
    /\ pc[i] = "release"
    /\ pc' = [pc EXCEPT ![i] = "done"]
    /\ lock' = ReleaseSyncLock(lock, i)
    /\ released' = [released EXCEPT ![i] = releaseFinds(lock, i)]
    /\ UNCHANGED <<now, repoStore, req, target, outcome, lease, markSaved, picks>>
    /\ UNCHANGED otherThanSync

SyncNext ==
    \/ Tick
    \/ \E i \in Invocations, r \in Requests : SyncBegin(i, r)
    \/ \E i \in Invocations : SyncListFails(i)
    \/ \E i \in Invocations : SyncSelect(i)
    \/ \E i \in Invocations, ok \in BOOLEAN : SyncMark(i, ok)
    \/ \E i \in Invocations : SyncCollectFails(i)
    \/ \E i \in Invocations : SyncCollect(i)
    \/ \E i \in Invocations, ok \in BOOLEAN : SyncSaveRepository(i, ok)
    \/ \E i \in Invocations : SyncSaveEntities(i)
    \/ \E i \in Invocations, ok \in BOOLEAN : SyncSaveLastSynced(i, ok)
    \/ \E i \in Invocations : SyncRelease(i)

Spec == SyncInit /\ [][SyncNext]_vars

\* ------------------------------- invocations one after another, none named

\* the scheduler's request: no repository named, a 30-minute interval
ScheduledRequests == {r \in Requests : r.Repo = "" /\ r.Interval = 30}

\* an invocation that starts once every earlier one has ended
ScenarioBegin(i, r) ==
    /\ \A j \in Invocations : j < i => pc[j] = "done"
    /\ SyncBegin(i, r)

ScenarioNext ==
    \/ Tick
    \/ \E i \in Invocations, r \in ScheduledRequests : ScenarioBegin(i, r)
    \/ \E i \in Invocations : SyncListFails(i)
    \/ \E i \in Invocations : SyncSelect(i)
    \/ \E i \in Invocations, ok \in BOOLEAN : SyncMark(i, ok)
    \/ \E i \in Invocations : SyncCollectFails(i)
    \/ \E i \in Invocations : SyncCollect(i)
    \/ \E i \in Invocations, ok \in BOOLEAN : SyncSaveRepository(i, ok)
    \/ \E i \in Invocations : SyncSaveEntities(i)
    \/ \E i \in Invocations, ok \in BOOLEAN : SyncSaveLastSynced(i, ok)
    \/ \E i \in Invocations : SyncRelease(i)

SpecScenario == SyncInit /\ [][ScenarioNext]_vars

\* ------------------------------- the handler and the cache it may clear

\* the tiers after every URI has been requested once and answered by the handler
warmEntries ==
    [k \in URIs |-> [body |-> <<Encode(k), 0>>, contentType |-> "application/json",
                     statusCode |-> 200, createdAt |-> 0]]
warmRecords ==
    [k \in URIs |-> [Body |-> <<Encode(k), 0>>, CreatedAt |-> 0,
                     TTLSec |-> cacheTTLMinutes]]

SyncCacheInit ==
    /\ now = StartTime
    /\ lock = NoLock
    /\ repoStore = [id \in RepoIds |->
                      Repository(id,
                                 CASE id = 1 -> Nil
                                   [] id = 2 -> StartTime - 120
                                   [] OTHER -> StartTime - 60,
                                 Nil)]
    /\ pc = [i \in Invocations |-> "idle"]
    /\ req = [i \in Invocations |-> NoRequest]
    /\ target = [i \in Invocations |-> NoTarget]
    /\ outcome = [i \in Invocations |-> "none"]
    /\ lease = [i \in Invocations |-> NoLock]
    /\ released = [i \in Invocations |-> "none"]
    /\ markSaved = [i \in Invocations |-> FALSE]
    /\ picks = <<>>
    /\ cacheNow = 0
    /\ entries \in {[k \in URIs |-> NoEntry], warmEntries}
    /\ dsMetricsCache \in {[k \in URIs |-> NoRecord], warmRecords}
    /\ putsInFlight = EmptyBag
    /\ deletesInFlight = EmptyBag
    /\ dataVersion = 0
    /\ lastResp = NoResponse
    /\ lastEvents = <<>>
    /\ PickIdle
    /\ MuIdle
    /\ CollIdle
    /\ RollIdle
    /\ CalcIdle
    /\ SaveIdle
    /\ RecurIdle

SyncCacheNext ==
    \/ Tick
    \/ \E i \in Invocations, r \in ClearCacheRequests : ScenarioBegin(i, r)
    \/ \E i \in Invocations : SyncListFails(i)
    \/ \E i \in Invocations : SyncSelect(i)
    \/ \E i \in Invocations, ok \in BOOLEAN : SyncMark(i, ok)
    \/ \E i \in Invocations : SyncCollectFails(i)
    \/ \E i \in Invocations : SyncCollect(i)
    \/ \E i \in Invocations, ok \in BOOLEAN : SyncSaveRepository(i, ok)
    \/ \E i \in Invocations : SyncSaveEntities(i)
    \/ \E i \in Invocations, ok \in BOOLEAN : SyncSaveLastSynced(i, ok)
    \/ \E i \in Invocations : SyncRelease(i)
    \/ \E d \in BagToSet(deletesInFlight), ok \in BOOLEAN : DeleteAllList(d, ok)
    \/ \E d \in BagToSet(deletesInFlight), ok \in BOOLEAN : DeleteAllMulti(d, ok)

SpecSyncCache == SyncCacheInit /\ [][SyncCacheNext]_vars

\* ------------------------------------------- the lease, by its callers

\* A caller of the datastore client: AcquireSyncLock under its own id
LockAcquire(i) ==
    /\ pc[i] = "idle"
    /\ lock' = AcquireSyncLock(lock, i, now, SyncLockTTL)
    /\ IF AcquireSyncLockOk(lock, now)
       THEN /\ pc' = [pc EXCEPT ![i] = "locked"]
            /\ lease' = [lease EXCEPT ![i] = lock']
            /\ UNCHANGED outcome
       ELSE /\ pc' = [pc EXCEPT ![i] = "done"]
            /\ outcome' = [outcome EXCEPT ![i] = "skipped"]
            /\ UNCHANGED lease
    /\ UNCHANGED <<now, repoStore, req, target, released, markSaved, picks>>
    /\ UNCHANGED otherThanSync

\* A caller that acquired the lease: ReleaseSyncLock under its own id, whenever it is done
LockRelease(i) ==
    /\ pc[i] = "locked"
    /\ pc' = [pc EXCEPT ![i] = "done"]
    /\ lock' = ReleaseSyncLock(lock, i)
    /\ released' = [released EXCEPT ![i] = releaseFinds(lock, i)]
    /\ UNCHANGED <<now, repoStore, req, target, outcome, lease, markSaved, picks>>
    /\ UNCHANGED otherThanSync

LockInit ==
    /\ now = StartTime
    /\ lock = NoLock
    /\ pc = [i \in Owners |-> "idle"]
    /\ outcome = [i \in Owners |-> "none"]
    /\ lease = [i \in Owners |-> NoLock]
    /\ released = [i \in Owners |-> "none"]
    /\ repoStore = <<>>
    /\ req = <<>>
    /\ target = <<>>
    /\ markSaved = <<>>
    /\ picks = <<>>
    /\ PickIdle
    /\ CacheIdle
    /\ MuIdle
    /\ CollIdle
    /\ RollIdle
    /\ CalcIdle
    /\ SaveIdle
    /\ RecurIdle

LockNext ==
    \/ Tick
    \/ \E i \in Owners : LockAcquire(i)
    \/ \E i \in Owners : LockRelease(i)

SpecLock == LockInit /\ [][LockNext]_vars

\* ------------------------------------------ pickSyncTarget, on its own

\* the sync times and process-start markers of the repositories handed to
\* pickSyncTarget, around the interval and guard boundaries
PickSyncTimes == {Nil, StartTime - 120, StartTime - 60, StartTime - 30, StartTime}
PickStartTimes == {Nil, StartTime - processStartGuard, StartTime - 5}
PickRepoNames == {"", "org/never", "old", "org/unknown"}
PickIntervals == {0, 30}

PickInit ==
    /\ pickNow = StartTime
    /\ \E n \in 0..Len(FullNameOf) :
         \E ls \in [1..n -> PickSyncTimes], ps \in [1..n -> PickStartTimes] :
            pickRepos = [k \in 1..n |-> Repository(k, ls[k], ps[k])]
    /\ pickReq \in [Repo : PickRepoNames, Interval : PickIntervals,
                    NoLock : {FALSE}, Force : BOOLEAN]
    /\ pickResult = Nil
    /\ SyncIdle
    /\ CacheIdle
    /\ MuIdle
    /\ CollIdle
    /\ RollIdle
    /\ CalcIdle
    /\ SaveIdle
    /\ RecurIdle

\* one call h.pickSyncTarget(repos, req)
PickCall ==
    /\ pickResult = Nil
    /\ pickResult' = pickSyncTarget(pickRepos, pickReq, pickNow)
    /\ UNCHANGED <<pickRepos, pickReq, pickNow>>
    /\ UNCHANGED otherThanPick

SpecPick == PickInit /\ [][PickCall]_vars

\* ------------------------------------- rc.entries under rc.mu, by steps

Goroutines == 1..NumGoroutines

\* the functions of cache.go that touch rc.entries
MapReaders == {"getFromMemory"}
MapInserters == {"getFromDatastore", "storeAll"}
MapWriters == MapInserters \cup {"cleanup", "Invalidate"}
NoOp == [name |-> "", key |-> ""]

\* a goroutine enters one of the functions
MuCall(g, name, key) ==
    /\ muPc[g] = "idle"
    /\ key = "" <=> name \in {"cleanup", "Invalidate"}
    /\ name \in MapInserters => Len(muHeap) < MaxEntries
    /\ muPc' = [muPc EXCEPT ![g] = "waiting"]
    /\ muOp' = [muOp EXCEPT ![g] = [name |-> name, key |-> key]]
    /\ UNCHANGED <<muReaders, muWriter, muMap, muHeap, muClock>>
    /\ UNCHANGED otherThanMu

\* rc.mu.RLock(): granted while no writer holds the lock
MuRLock(g) ==
    /\ muPc[g] = "waiting"
    /\ muOp[g].name \in MapReaders
    /\ muWriter = 0
    /\ muReaders' = muReaders \cup {g}
    /\ muPc' = [muPc EXCEPT ![g] = "locked"]
    /\ UNCHANGED <<muWriter, muOp, muMap, muHeap, muClock>>
    /\ UNCHANGED otherThanMu

\* mutant of MuLock: the function goes on without the lock
MuLockNotTaken(g) ==
    /\ muPc[g] = "waiting"
    /\ muOp[g].name \in MapWriters
    /\ muPc' = [muPc EXCEPT ![g] = "locked"]
    /\ UNCHANGED <<muReaders, muWriter, muOp, muMap, muHeap, muClock>>
    /\ UNCHANGED otherThanMu

\* rc.mu.Lock(): granted while nobody holds the lock
MuLock(g) ==
    /\ muPc[g] = "waiting"
    /\ muOp[g].name \in MapWriters
    /\ muWriter = 0
    /\ muReaders = {}
    /\ muWriter' = g
    /\ muPc' = [muPc EXCEPT ![g] = "locked"]
    /\ UNCHANGED <<muReaders, muOp, muMap, muHeap, muClock>>
    /\ UNCHANGED otherThanMu

\* the function starts to read or write the map
MuAccessBegin(g) ==
    /\ muPc[g] = "locked"
    /\ muPc' = [muPc EXCEPT ![g] = "accessing"]
    /\ UNCHANGED <<muReaders, muWriter, muOp, muMap, muHeap, muClock>>
    /\ UNCHANGED otherThanMu

\* the map after the function's access: a lookup leaves it, an insert puts a
\* new entry under the key, cleanup deletes the entries older than the TTL,
\* Invalidate puts an empty map in its place
mapAfter(op) ==
    CASE op.name \in MapInserters -> [muMap EXCEPT ![op.key] = Len(muHeap) + 1]
      [] op.name = "cleanup" ->
           [k \in URIs |-> IF muMap[k] # 0
                              /\ muClock - muHeap[muMap[k]].createdAt > cacheTTLMinutes
                           THEN 0 ELSE muMap[k]]
      [] op.name = "Invalidate" -> [k \in URIs |-> 0]
      [] OTHER -> muMap

\* the entries after the function's access: an insert allocates a CacheEntry
heapAfter(op) ==
    IF op.name \in MapInserters
    THEN Append(muHeap, [key |-> op.key, createdAt |-> muClock])
    ELSE muHeap

\* the function has read or written the map
MuAccessEnd(g) ==
    /\ muPc[g] = "accessing"
    /\ muMap' = mapAfter(muOp[g])
    /\ muHeap' = heapAfter(muOp[g])
    /\ muPc' = [muPc EXCEPT ![g] = "accessed"]
    /\ UNCHANGED <<muReaders, muWriter, muOp, muClock>>
    /\ UNCHANGED otherThanMu

\* rc.mu.RUnlock() or rc.mu.Unlock(), and the function returns
MuUnlock(g) ==
    /\ muPc[g] = "accessed"
    /\ muReaders' = muReaders \ {g}
    /\ muWriter' = IF muWriter = g THEN 0 ELSE muWriter
    /\ muPc' = [muPc EXCEPT ![g] = "idle"]
    /\ muOp' = [muOp EXCEPT ![g] = NoOp]
    /\ UNCHANGED <<muMap, muHeap, muClock>>
    /\ UNCHANGED otherThanMu

\* time passes
MuTick ==
    /\ muClock < MuMaxTicks * MuTickMinutes
    /\ muClock' = muClock + MuTickMinutes
    /\ UNCHANGED <<muReaders, muWriter, muPc, muOp, muMap, muHeap>>
    /\ UNCHANGED otherThanMu

MuInit ==
    /\ muReaders = {}
    /\ muWriter = 0
    /\ muPc = [g \in Goroutines |-> "idle"]
    /\ muOp = [g \in Goroutines |-> NoOp]
    /\ muMap = [k \in URIs |-> 0]
    /\ muHeap = <<>>
    /\ muClock = 0
    /\ SyncIdle
    /\ PickIdle
    /\ CacheIdle
    /\ CollIdle
    /\ RollIdle
    /\ CalcIdle
    /\ SaveIdle
    /\ RecurIdle

MuNext ==
    \/ \E g \in Goroutines, name \in MapReaders \cup MapWriters, key \in URIs \cup {""} :
          MuCall(g, name, key)
    \/ \E g \in Goroutines : MuRLock(g)
    \/ \E g \in Goroutines : MuLock(g)
    \/ \E g \in Goroutines : MuAccessBegin(g)
    \/ \E g \in Goroutines : MuAccessEnd(g)
    \/ \E g \in Goroutines : MuUnlock(g)
    \/ MuTick

SpecMu == MuInit /\ [][MuNext]_vars

\* ------------------------------------------------------------- Collector

\* timeutil.Now() at the call, in days
CollNow == 100

SyncRanges == {"day", "week", "month", "full"}

\* CollectOptionsForRange: the window start and the page budget of a sync
\* range; a month is taken as 30 days, and PerPage stands for the source's 100
CollectOptionsForRange(syncRange) ==
    [Since |-> CollNow - (CASE syncRange = "day" -> 1
                            [] syncRange = "week" -> 7
                            [] syncRange = "month" -> 30
                            [] OTHER -> 90),
     Until |-> CollNow,
     State |-> "all",
     PerPage |-> PerPage,
     MaxPages |-> CASE syncRange = "day" -> 3
                    [] syncRange = "week" -> 5
                    [] OTHER -> 10]

\* the calls to the platform that one pull request takes
EnrichmentCalls == {"GetPullRequest", "ListPullRequestFiles", "GetFirstCommitTime",
                    "ListPullRequestReviews", "ListReviewComments"}

\* no call fails
NoFails == [GetRepository |-> FALSE, ListPullRequests |-> 0, perItem |-> {},
            ListDeployments |-> FALSE, ListContributors |-> FALSE]

\* ListPullRequests: one page of the feed, newest update first
ListPullRequests(feed, page, perPage) ==
    SubSeq(feed, (page - 1) * perPage + 1,
           IF page * perPage < Len(feed) THEN page * perPage ELSE Len(feed))

\* mutant of beforeSince: an item updated at the window start counts as before it
beforeSinceOrAt(pr, since) == pr.UpdatedAt <= since

\* pr.UpdatedAt.Before(opts.Since)
beforeSince(pr, since) == pr.UpdatedAt < since

\* the items of a page up to the first one updated before the window start
RECURSIVE untilBoundary(_, _)
untilBoundary(prs, since) ==
    IF prs = <<>> \/ beforeSince(Head(prs), since)
    THEN <<>>
    ELSE <<Head(prs)>> \o untilBoundary(Tail(prs), since)

\* mutant of enriched: a failed enrichment call drops the item's other fields too
enrichedAllOrNothing(pr, fails) ==
    LET ok == \A call \in EnrichmentCalls : <<pr.Number, call>> \notin fails.perItem
    IN [Number |-> pr.Number, CreatedAt |-> pr.CreatedAt, UpdatedAt |-> pr.UpdatedAt,
        Stats |-> ok, FileExtStats |-> ok, FirstCommitAt |-> ok,
        FirstReviewAt |-> FALSE]

\* an item after the three enrichment calls of CollectPullRequests: each field
\* is set if its call succeeded
enriched(pr, fails) ==
    [Number |-> pr.Number, CreatedAt |-> pr.CreatedAt, UpdatedAt |-> pr.UpdatedAt,
     Stats |-> <<pr.Number, "GetPullRequest">> \notin fails.perItem,
     FileExtStats |-> <<pr.Number, "ListPullRequestFiles">> \notin fails.perItem,
     FirstCommitAt |-> <<pr.Number, "GetFirstCommitTime">> \notin fails.perItem,
     FirstReviewAt |-> FALSE]

\* the page loop of CollectPullRequests from a page on
RECURSIVE collectPages(_, _, _, _, _)
collectPages(feed, opts, fails, page, allPRs) ==
    IF page > opts.MaxPages THEN [err |-> FALSE, prs |-> allPRs]
    ELSE IF fails.ListPullRequests = page THEN [err |-> TRUE, prs |-> <<>>]
    ELSE LET prs == ListPullRequests(feed, page, opts.PerPage)
             kept == untilBoundary(prs, opts.Since)
             all == allPRs \o [k \in 1..Len(kept) |-> enriched(kept[k], fails)]
         IN IF Len(prs) = 0 THEN [err |-> FALSE, prs |-> allPRs]
            ELSE IF Len(kept) < Len(prs) THEN [err |-> FALSE, prs |-> all]
            ELSE IF Len(prs) < opts.PerPage THEN [err |-> FALSE, prs |-> all]
            ELSE collectPages(feed, opts, fails, page + 1, all)

CollectPullRequests(feed, opts, fails) == collectPages(feed, opts, fails, 1, <<>>)

\* CollectReviews: the platform holds one review per pull request; a failed
\* review listing skips the pull request, a failed comment listing leaves the
\* review's comment count at zero
reviewsOf(pr, fails) ==
    IF <<pr.Number, "ListPullRequestReviews">> \in fails.perItem THEN <<>>
    ELSE <<[PullRequest |-> pr.Number,
            CommentsCount |-> IF <<pr.Number, "ListReviewComments">> \in fails.perItem
                              THEN 0 ELSE 1]>>

RECURSIVE CollectReviews(_, _)
CollectReviews(prs, fails) ==
    IF prs = <<>> THEN <<>>
    ELSE reviewsOf(Head(prs), fails) \o CollectReviews(Tail(prs), fails)

\* the pull requests after CollectReviews, which sets FirstReviewAt through the
\* pointers it shares with the result
reviewed(prs, fails) ==
    [k \in 1..Len(prs) |->
        [prs[k] EXCEPT !.FirstReviewAt = reviewsOf(prs[k], fails) # <<>>]]

\* the deployments the platform lists (they fit one page), and the contributors
DeploymentFeed == <<[ID |-> "d1", CreatedAt |-> CollNow], [ID |-> "d0", CreatedAt |-> 0]>>
Contributors == <<"alice">>

\* CollectDeployments: the deployments created in the window, or an error
CollectDeployments(opts, fails) ==
    IF fails.ListDeployments THEN <<>>
    ELSE SelectSeq(DeploymentFeed, LAMBDA d : ~(d.CreatedAt < opts.Since))

NoData == [Repository |-> "", PullRequests |-> <<>>, Reviews |-> <<>>,
           Deployments |-> <<>>, TeamMembers |-> <<>>]
NoResult == [returned |-> FALSE, err |-> "", data |-> NoData]

\* CollectAll: the repository and the feed are fatal, the rest is logged
CollectAll(feed, opts, fails) ==
    LET listed == CollectPullRequests(feed, opts, fails)
    IN IF fails.GetRepository
       THEN [returned |-> TRUE, err |-> "failed to collect repository", data |-> NoData]
       ELSE IF listed.err
       THEN [returned |-> TRUE, err |-> "failed to collect pull requests", data |-> NoData]
       ELSE [returned |-> TRUE, err |-> "",
             data |-> [Repository |-> "org/repo",
                       PullRequests |-> reviewed(listed.prs, fails),
                       Reviews |-> CollectReviews(listed.prs, fails),
                       Deployments |-> CollectDeployments(opts, fails),
                       TeamMembers |-> IF fails.ListContributors
                                       THEN <<>> ELSE Contributors]]

\* the update times of the items of a feed, and the feeds: newest update first
UpdateTimes == {CollNow, CollNow - 1, CollNow - 2, CollNow - 7, CollNow - 8,
                CollNow - 30, CollNow - 31, CollNow - 90, CollNow - 91}
newestFirst(times) == \A k \in 1..(Len(times) - 1) : times[k] >= times[k + 1]
feedOf(times) ==
    [k \in 1..Len(times) |-> [Number |-> k, CreatedAt |-> times[k], UpdatedAt |-> times[k]]]

\* a call of CollectPullRequests in which no call to the platform fails
CollectPullRequestsInit ==
    /\ \E n \in 0..MaxFeedLen :
         \E times \in [1..n -> UpdateTimes] :
            /\ newestFirst(times)
            /\ collFeed = feedOf(times)
    /\ collRange \in SyncRanges
    /\ collFails = NoFails
    /\ collResult = NoResult
    /\ RollIdle
    /\ CalcIdle
    /\ SyncIdle
    /\ PickIdle
    /\ CacheIdle
    /\ MuIdle
    /\ SaveIdle
    /\ RecurIdle

CollectPullRequestsCall ==
    /\ ~collResult.returned
    /\ LET listed == CollectPullRequests(collFeed, CollectOptionsForRange(collRange),
                                         collFails)
       IN collResult' = [returned |-> TRUE,
                         err |-> IF listed.err THEN "failed to list pull requests" ELSE "",
                         data |-> [NoData EXCEPT !.PullRequests = listed.prs]]
    /\ UNCHANGED <<collFeed, collRange, collFails>>
    /\ UNCHANGED otherThanColl

SpecCollect == CollectPullRequestsInit /\ [][CollectPullRequestsCall]_vars

\* the failures a call of CollectAll may meet: at most MaxItemFailures
\* enrichment calls, one page listing, and any of the other calls
CollectFailures ==
    {[GetRepository |-> r, ListPullRequests |-> p, perItem |-> items,
      ListDeployments |-> d, ListContributors |-> c] :
        r \in BOOLEAN, p \in 0..MaxFailingPage, d \in BOOLEAN, c \in BOOLEAN,
        items \in {s \in SUBSET ((1..MaxFailFeedLen) \X EnrichmentCalls) :
                     Cardinality(s) <= MaxItemFailures}}

\* a call of CollectAll for the day range, with failures
CollectAllInit ==
    /\ \E n \in 0..MaxFailFeedLen :
         \E times \in [1..n -> {CollNow, CollNow - 2}] :
            /\ newestFirst(times)
            /\ collFeed = feedOf(times)
    /\ collRange = "day"
    /\ collFails \in CollectFailures
    /\ collResult = NoResult
    /\ RollIdle
    /\ CalcIdle
    /\ SyncIdle
    /\ PickIdle
    /\ CacheIdle
    /\ MuIdle
    /\ SaveIdle
    /\ RecurIdle

CollectAllCall ==
    /\ ~collResult.returned
    /\ collResult' = CollectAll(collFeed, CollectOptionsForRange(collRange), collFails)
    /\ UNCHANGED <<collFeed, collRange, collFails>>
    /\ UNCHANGED otherThanColl

SpecCollectAll == CollectAllInit /\ [][CollectAllCall]_vars

\* ---------------------------------------------------------- daily rollups

\* the length of a sync range in half days, and the first instant modelled
HalfDaysOf(syncRange) == IF syncRange = "day" THEN 2 ELSE 14
RollStart == 14
RollRanges == {"day", "week"}
RollDays == 0..((RollStart + RollMaxTicks) \div 2)
NoRow == [Date |-> Nil, PRsOpened |-> 0]

\* the options of a sync that starts at an instant
rollOptions(syncRange, t) ==
    [CollectOptionsForRange(syncRange) EXCEPT !.Since = t - HalfDaysOf(syncRange),
                                              !.Until = t]

\* time.Date(date.Year(), date.Month(), date.Day(), 0, 0, 0, 0, date.Location())
startOfDay(date) == (date \div 2) * 2

\* AggregateDailyMetrics: the row of the day of a date, from the items given
AggregateDailyMetrics(date, prs) ==
    [Date |-> startOfDay(date),
     PRsOpened |-> Cardinality({k \in 1..Len(prs) :
                                  /\ ~(prs[k].CreatedAt < startOfDay(date))
                                  /\ prs[k].CreatedAt < startOfDay(date) + 2})]

\* AggregateRange: one row per day, from the start date on, while the date is
\* not after the end date
RECURSIVE AggregateRange(_, _, _)
AggregateRange(startDate, endDate, prs) ==
    IF startDate > endDate THEN <<>>
    ELSE <<AggregateDailyMetrics(startDate, prs)>>
           \o AggregateRange(startDate + 2, endDate, prs)

\* SaveDailyMetricsBatch: PutMulti under the keys repository:date
SaveDailyMetricsBatch(store, metricsList) ==
    [d \in DOMAIN store |->
        IF \E k \in 1..Len(metricsList) : metricsList[k].Date = d * 2
        THEN CHOOSE row \in {metricsList[k] : k \in 1..Len(metricsList)} : row.Date = d * 2
        ELSE store[d]]

\* half a day passes
RollTick ==
    /\ rollNow < RollStart + RollMaxTicks
    /\ rollNow' = rollNow + 1
    /\ UNCHANGED <<rollPRs, rollStore>>
    /\ UNCHANGED otherThanRoll

\* a pull request is opened on the platform
RollOpen ==
    /\ Len(rollPRs) < MaxPRs
    /\ rollPRs' = <<[Number |-> Len(rollPRs) + 1, CreatedAt |-> rollNow,
                     UpdatedAt |-> rollNow]>> \o rollPRs
    /\ UNCHANGED <<rollNow, rollStore>>
    /\ UNCHANGED otherThanRoll

\* syncSingleRepo: collect the window, aggregate it day by day, save the rows
RollSync(syncRange, ok) ==
    /\ LET opts == rollOptions(syncRange, rollNow)
           data == CollectPullRequests(rollPRs, opts, NoFails).prs
           dailyMetrics == AggregateRange(opts.Since, rollNow, data)
       IN rollStore' = IF ok THEN SaveDailyMetricsBatch(rollStore, dailyMetrics)
                             ELSE rollStore
    /\ UNCHANGED <<rollNow, rollPRs>>
    /\ UNCHANGED otherThanRoll

RollInit ==
    /\ rollNow = RollStart
    /\ rollPRs = <<>>
    /\ rollStore = [d \in RollDays |-> NoRow]
    /\ CalcIdle
    /\ SyncIdle
    /\ PickIdle
    /\ CacheIdle
    /\ MuIdle
    /\ CollIdle
    /\ SaveIdle
    /\ RecurIdle

RollNext ==
    \/ RollTick
    \/ RollOpen
    \/ \E syncRange \in RollRanges, ok \in BOOLEAN : RollSync(syncRange, ok)

SpecRoll == RollInit /\ [][RollNext]_vars

\* ------------------------------------------- pure functions, one call each

NoOutput == [returned |-> FALSE, value |-> <<>>]
CalcTimes == 0..CalcMaxTime

\* the lists of at most MaxCalcItems pull requests opened at the times modelled
OpenedLists ==
    UNION {[1..n -> [CreatedAt : CalcTimes]] : n \in 0..MaxCalcItems}

\* a call of AggregateRange with a start not after the end
AggregateRangeInit ==
    /\ calcIn \in [startDate : CalcTimes, endDate : CalcTimes, prs : OpenedLists]
    /\ calcIn.startDate <= calcIn.endDate
    /\ calcOut = NoOutput
    /\ SyncIdle
    /\ PickIdle
    /\ CacheIdle
    /\ MuIdle
    /\ CollIdle
    /\ RollIdle
    /\ SaveIdle
    /\ RecurIdle

AggregateRangeCall ==
    /\ ~calcOut.returned
    /\ calcOut' = [returned |-> TRUE,
                   value |-> AggregateRange(calcIn.startDate, calcIn.endDate, calcIn.prs)]
    /\ UNCHANGED calcIn
    /\ UNCHANGED otherThanCalc

SpecAggregateRange == AggregateRangeInit /\ [][AggregateRangeCall]_vars

\* ------------------------------------------- durations of a pull request

\* the instants (in hours) a timestamp of a pull request can hold, and the
\* optional ones, Nil when the pointer is nil
Hours == 0..MaxHour
OptHours == Hours \cup {Nil}

\* the pull requests of the given authors: CreatedAt is always set, the other
\* four timestamps are pointers
PullRequestsBy(authors) ==
    [Author : authors, CreatedAt : Hours, FirstCommitAt : OptHours,
     FirstReviewAt : OptHours, ApprovedAt : OptHours, MergedAt : OptHours]

CycleTimeHoursAlways(pr) ==
    LET start == IF pr.FirstCommitAt # Nil /\ pr.FirstCommitAt < pr.CreatedAt
                 THEN pr.FirstCommitAt ELSE pr.CreatedAt
    IN pr.MergedAt - start

CycleTimeHours(pr) ==
    LET start == IF pr.FirstCommitAt # Nil /\ pr.FirstCommitAt < pr.CreatedAt
                 THEN pr.FirstCommitAt ELSE pr.CreatedAt
    IN IF pr.MergedAt = Nil THEN 0 ELSE pr.MergedAt - start

CodingTimeHours(pr) ==
    IF pr.FirstCommitAt = Nil THEN 0 ELSE pr.CreatedAt - pr.FirstCommitAt

PickupTimeHours(pr) ==
    IF pr.FirstReviewAt = Nil THEN 0 ELSE pr.FirstReviewAt - pr.CreatedAt

ReviewTimeHours(pr) ==
    IF pr.FirstReviewAt = Nil \/ pr.ApprovedAt = Nil THEN 0
    ELSE pr.ApprovedAt - pr.FirstReviewAt

MergeTimeHours(pr) ==
    IF pr.ApprovedAt = Nil \/ pr.MergedAt = Nil THEN 0
    ELSE pr.MergedAt - pr.ApprovedAt

\* one pull request, any timestamps
DurationsInit ==
    /\ calcIn \in PullRequestsBy({"alice"})
    /\ calcOut = NoOutput
    /\ SyncIdle
    /\ PickIdle
    /\ CacheIdle
    /\ MuIdle
    /\ CollIdle
    /\ RollIdle
    /\ SaveIdle
    /\ RecurIdle

\* the five derived durations of the pull request
DurationsCall ==
    /\ ~calcOut.returned
    /\ calcOut' = [returned |-> TRUE,
                   value |-> [CycleTime |-> CycleTimeHours(calcIn),
                              CodingTime |-> CodingTimeHours(calcIn),
                              PickupTime |-> PickupTimeHours(calcIn),
                              ReviewTime |-> ReviewTimeHours(calcIn),
                              MergeTime |-> MergeTimeHours(calcIn)]]
    /\ UNCHANGED calcIn
    /\ UNCHANGED otherThanCalc

SpecDurations == DurationsInit /\ [][DurationsCall]_vars

\* ------------------------------------------- Calculator.CalculateCycleTime

\* a float64 that is a quotient of two integers, kept as the quotient
Zero == [num |-> 0, den |-> 1]

RECURSIVE sumOf(_)
sumOf(values) ==
    IF values = <<>> THEN 0 ELSE Head(values) + sumOf(Tail(values))

\* A float64 is a quotient of two integers with MantissaBits significant binary
\* digits (53 in the build); every arithmetic operation rounds its exact result
\* to the nearest such number, ties to the even one.
RECURSIVE pow2(_)
pow2(k) == IF k = 0 THEN 1 ELSE 2 * pow2(k - 1)

RECURSIVE gcd(_, _)
gcd(a, b) == IF b = 0 THEN a ELSE gcd(b, a % b)

quotient(num, den) ==
    IF num = 0 THEN Zero
    ELSE [num |-> num \div gcd(num, den), den |-> den \div gcd(num, den)]

\* the binary exponent e with 2^(MantissaBits-1) <= num/den / 2^e < 2^MantissaBits
RECURSIVE exponentOf(_, _)
exponentOf(num, den) ==
    IF num >= den * pow2(MantissaBits) THEN exponentOf(num, 2 * den) + 1
    ELSE IF num < den * pow2(MantissaBits - 1) THEN exponentOf(2 * num, den) - 1
    ELSE 0

\* the float64 nearest to a non-negative exact value
rounded(x) ==
    IF x.num = 0 THEN Zero
    ELSE LET e == exponentOf(x.num, x.den)
             n == IF e < 0 THEN x.num * pow2(-e) ELSE x.num
             d == IF e > 0 THEN x.den * pow2(e) ELSE x.den
             q == n \div d
             r == n % d
             m == IF 2 * r > d \/ (2 * r = d /\ q % 2 = 1) THEN q + 1 ELSE q
         IN quotient(IF e > 0 THEN m * pow2(e) ELSE m,
                     IF e < 0 THEN pow2(-e) ELSE 1)

whole(n) == [num |-> n, den |-> 1]

fadd(x, y) == rounded(quotient(x.num * y.den + y.num * x.den, x.den * y.den))
fsub(x, y) == rounded(quotient(x.num * y.den - y.num * x.den, x.den * y.den))
fmul(x, y) == rounded(quotient(x.num * y.num, x.den * y.den))
fdiv(x, y) == rounded(quotient(x.num * y.den, x.den * y.num))

lessThan(x, y) == x.num * y.den < y.num * x.den
atMost(x, y) == x.num * y.den <= y.num * x.den

\* sort.Float64s
RECURSIVE insertSorted(_, _)
insertSorted(sorted, v) ==
    IF sorted = <<>> THEN <<v>>
    ELSE IF lessThan(v, Head(sorted)) THEN <<v>> \o sorted
    ELSE <<Head(sorted)>> \o insertSorted(Tail(sorted), v)

RECURSIVE Float64s(_)
Float64s(values) ==
    IF values = <<>> THEN <<>>
    ELSE insertSorted(Float64s(Tail(values)), Head(values))

median(values) ==
    IF Len(values) = 0 THEN Zero
    ELSE LET sorted == Float64s(values)
             mid == Len(sorted) \div 2
         IN IF Len(sorted) % 2 = 0
            THEN fdiv(fadd(sorted[mid], sorted[mid + 1]), whole(2))
            ELSE sorted[mid + 1]

percentile(values, p) ==
    IF Len(values) = 0 THEN Zero
    ELSE LET sorted == Float64s(values)
             index == fmul(fdiv(whole(p), whole(100)), whole(Len(sorted) - 1))
             lower == index.num \div index.den
             upper == lower + 1
             weight == fsub(index, whole(lower))
         IN IF upper >= Len(sorted) THEN sorted[lower + 1]
            ELSE fadd(fmul(sorted[lower + 1], fsub(whole(1), weight)),
                      fmul(sorted[upper + 1], weight))

average(values) ==
    IF Len(values) = 0 THEN Zero
    ELSE [num |-> sumOf(values), den |-> Len(values)]

\* the values of a series that are appended to it: the strictly positive ones
appended(values) == SelectSeq(values, LAMBDA v : v > 0)

seriesOf(prs, Duration(_)) == [k \in 1..Len(prs) |-> Duration(prs[k])]

CalculateCycleTime(prs, startDate, endDate) ==
    LET mergedPRs == SelectSeq(prs, LAMBDA pr :
                        /\ pr.MergedAt # Nil
                        /\ ~(pr.MergedAt < startDate)
                        /\ ~(pr.MergedAt > endDate))
        authors == {mergedPRs[k].Author : k \in 1..Len(mergedPRs)}
        by(a) == SelectSeq(mergedPRs, LAMBDA pr : pr.Author = a)
        positive == appended(seriesOf(mergedPRs, CycleTimeHours))
        cycleTimes == [k \in 1..Len(positive) |-> whole(positive[k])]
    IN IF Len(mergedPRs) = 0
       THEN [TotalPRs |-> 0, AvgCycleTime |-> Zero, AvgCodingTime |-> Zero,
             AvgPickupTime |-> Zero, AvgReviewTime |-> Zero, AvgMergeTime |-> Zero,
             MedianCycleTime |-> Zero, P90CycleTime |-> Zero,
             ByAuthor |-> <<>>]
       ELSE [TotalPRs |-> Len(mergedPRs),
             AvgCycleTime |-> average(appended(seriesOf(mergedPRs, CycleTimeHours))),
             AvgCodingTime |-> average(appended(seriesOf(mergedPRs, CodingTimeHours))),
             AvgPickupTime |-> average(appended(seriesOf(mergedPRs, PickupTimeHours))),
             AvgReviewTime |-> average(appended(seriesOf(mergedPRs, ReviewTimeHours))),
             AvgMergeTime |-> average(appended(seriesOf(mergedPRs, MergeTimeHours))),
             MedianCycleTime |-> median(cycleTimes),
             P90CycleTime |-> percentile(cycleTimes, 90),
             ByAuthor |-> [a \in authors |->
                 [PRCount |-> Len(by(a)),
                  AvgCycleTime |->
                      [num |-> sumOf(appended(seriesOf(by(a), CycleTimeHours))),
                       den |-> Len(by(a))]]]]

\* the pull requests the collector can hand over: a review is never before the
\* pull request, the approval is one of the reviews and never before the first
\* one, and the merge is never before the creation
Collected(prs) ==
    {pr \in prs :
        /\ pr.FirstReviewAt # Nil => pr.FirstReviewAt >= pr.CreatedAt
        /\ pr.ApprovedAt # Nil =>
              pr.FirstReviewAt # Nil /\ pr.ApprovedAt >= pr.FirstReviewAt
        /\ pr.MergedAt # Nil => pr.MergedAt >= pr.CreatedAt}

Authors == {"alice", "bob"}

listsOf(items) == UNION {[1..n -> items] : n \in 0..MaxCalcItems}

\* a call over the whole span of time with any collected pull requests
CycleTimeInit ==
    /\ calcIn \in [prs : listsOf(Collected(PullRequestsBy(Authors))),
                   startDate : {0}, endDate : {MaxHour}]
    /\ calcOut = NoOutput
    /\ SyncIdle
    /\ PickIdle
    /\ CacheIdle
    /\ MuIdle
    /\ CollIdle
    /\ RollIdle
    /\ SaveIdle
    /\ RecurIdle

CalculateCycleTimeCall ==
    /\ ~calcOut.returned
    /\ calcOut' = [returned |-> TRUE,
                   value |-> CalculateCycleTime(calcIn.prs, calcIn.startDate, calcIn.endDate)]
    /\ UNCHANGED calcIn
    /\ UNCHANGED otherThanCalc

SpecCycleTime == CycleTimeInit /\ [][CalculateCycleTimeCall]_vars

\* ------------------------------------------- the window of the calculator

\* the reviews CalculateReviewMetrics keeps, by their SubmittedAt
filteredReviews(reviews, startDate, endDate) ==
    SelectSeq(reviews, LAMBDA review :
        ~(review.SubmittedAt < startDate) /\ ~(review.SubmittedAt > endDate))

\* the deployments CalculateDORAMetrics keeps, by their CreatedAt
filteredDeployments(deployments, startDate, endDate) ==
    SelectSeq(deployments, LAMBDA d :
        ~(d.CreatedAt < startDate) /\ ~(d.CreatedAt > endDate))

\* the merged pull requests CalculateDORAMetrics counts as changes
totalChanges(prs, startDate, endDate) ==
    Len(SelectSeq(prs, LAMBDA pr :
        /\ pr.MergedAt # Nil
        /\ ~(pr.MergedAt < startDate)
        /\ ~(pr.MergedAt > endDate)))

\* pull requests that differ only in when (and whether) they were merged
MergedOrNot ==
    {pr \in PullRequestsBy({"alice"}) :
        /\ pr.CreatedAt = 0
        /\ pr.FirstCommitAt = Nil
        /\ pr.FirstReviewAt = Nil
        /\ pr.ApprovedAt = Nil}

\* the three calculations over one window, start not after end
WindowInit ==
    /\ calcIn \in [prs : listsOf(MergedOrNot),
                   reviews : listsOf([SubmittedAt : Hours]),
                   deployments : listsOf([CreatedAt : Hours]),
                   startDate : Hours, endDate : Hours]
    /\ calcIn.startDate <= calcIn.endDate
    /\ calcOut = NoOutput
    /\ SyncIdle
    /\ PickIdle
    /\ CacheIdle
    /\ MuIdle
    /\ CollIdle
    /\ RollIdle
    /\ SaveIdle
    /\ RecurIdle

\* what each of the three calculations counted
WindowCall ==
    /\ ~calcOut.returned
    /\ calcOut' =
         [returned |-> TRUE,
          value |->
            [TotalPRs |-> CalculateCycleTime(calcIn.prs, calcIn.startDate,
                                             calcIn.endDate).TotalPRs,
             TotalReviews |-> Len(filteredReviews(calcIn.reviews, calcIn.startDate,
                                                  calcIn.endDate)),
             DeploymentCount |-> Len(filteredDeployments(calcIn.deployments,
                                        calcIn.startDate, calcIn.endDate)),
             TotalChanges |-> totalChanges(calcIn.prs, calcIn.startDate,
                                           calcIn.endDate)]]
    /\ UNCHANGED calcIn
    /\ UNCHANGED otherThanCalc

SpecWindow == WindowInit /\ [][WindowCall]_vars

\* ------------------------------------------- MetricsHandler.collectDailyMetrics

\* the durations part of the row AggregateDailyMetrics builds for a day, from
\* the pull requests merged on that day (the day is the whole span of hours)
DailyDurations(dayPRsMerged) ==
    LET cycleTimeMetrics == CalculateCycleTime(dayPRsMerged, 0, MaxHour)
    IN [AvgCycleTime |-> cycleTimeMetrics.AvgCycleTime,
        AvgCodingTime |-> cycleTimeMetrics.AvgCodingTime,
        AvgPickupTime |-> cycleTimeMetrics.AvgPickupTime,
        AvgReviewTime |-> cycleTimeMetrics.AvgReviewTime,
        AvgMergeTime |-> cycleTimeMetrics.AvgMergeTime,
        PRsMerged |-> Len(dayPRsMerged)]

weightedAvg(val1, weight1, val2, weight2) ==
    IF weight1 + weight2 = 0 THEN Zero
    ELSE [num |-> val1.num * weight1 * val2.den + val2.num * weight2 * val1.den,
          den |-> val1.den * val2.den * (weight1 + weight2)]

\* a row of a further repository merged into the row grouped under its date
mergedInto(agg, dm) ==
    LET prevMerged == agg.PRsMerged
        newMerged == dm.PRsMerged
        w(x, y) == IF prevMerged + newMerged > 0
                   THEN weightedAvg(x, prevMerged, y, newMerged) ELSE x
    IN [AvgCycleTime |-> w(agg.AvgCycleTime, dm.AvgCycleTime),
        AvgCodingTime |-> w(agg.AvgCodingTime, dm.AvgCodingTime),
        AvgPickupTime |-> w(agg.AvgPickupTime, dm.AvgPickupTime),
        AvgReviewTime |-> w(agg.AvgReviewTime, dm.AvgReviewTime),
        AvgMergeTime |-> w(agg.AvgMergeTime, dm.AvgMergeTime),
        PRsMerged |-> agg.PRsMerged + dm.PRsMerged]

\* the rows of one date, one per repository in the order of the repositories:
\* the first is copied, each further one is merged into it
RECURSIVE groupedFrom(_, _)
groupedFrom(agg, daily) ==
    IF daily = <<>> THEN agg
    ELSE groupedFrom(mergedInto(agg, Head(daily)), Tail(daily))

collectDailyMetrics(daily) == groupedFrom(Head(daily), Tail(daily))

\* pull requests merged on the day, created at hour 1, never reviewed
MergedOnDay ==
    {pr \in PullRequestsBy({"alice"}) :
        /\ pr.CreatedAt = 1
        /\ pr.FirstReviewAt = Nil
        /\ pr.ApprovedAt = Nil
        /\ pr.MergedAt # Nil
        /\ pr.MergedAt >= pr.CreatedAt}

\* the pull requests of each of NumRepos repositories merged on one day
MergedRowsInit ==
    /\ calcIn \in [1..NumRepos -> listsOf(MergedOnDay)]
    /\ calcOut = NoOutput
    /\ SyncIdle
    /\ PickIdle
    /\ CacheIdle
    /\ MuIdle
    /\ CollIdle
    /\ RollIdle
    /\ SaveIdle
    /\ RecurIdle

\* the sync stores a row per repository, the handler merges the rows
collectDailyMetricsCall ==
    /\ ~calcOut.returned
    /\ calcOut' = [returned |-> TRUE,
                   value |-> collectDailyMetrics(
                                [i \in 1..NumRepos |-> DailyDurations(calcIn[i])])]
    /\ UNCHANGED calcIn
    /\ UNCHANGED otherThanCalc

SpecMergedRows == MergedRowsInit /\ [][collectDailyMetricsCall]_vars

\* ------------------------------------------- median and percentile of a series

\* durations in hours, each a float64: the numbers from 1 up to 2
Durations ==
    {quotient(m, pow2(MantissaBits - 1)) :
        m \in pow2(MantissaBits - 1)..(pow2(MantissaBits) - 1)}

\* a non-empty series of durations
SeriesInit ==
    /\ calcIn \in UNION {[1..n -> Durations] : n \in 1..MaxSeries}
    /\ calcOut = NoOutput
    /\ SyncIdle
    /\ PickIdle
    /\ CacheIdle
    /\ MuIdle
    /\ CollIdle
    /\ RollIdle
    /\ SaveIdle
    /\ RecurIdle

\* the median and the 90th percentile the metrics report for the series
SeriesCall ==
    /\ ~calcOut.returned
    /\ calcOut' = [returned |-> TRUE,
                   value |-> [Median |-> median(calcIn),
                              P90 |-> percentile(calcIn, 90)]]
    /\ UNCHANGED calcIn
    /\ UNCHANGED otherThanCalc

SpecSeries == SeriesInit /\ [][SeriesCall]_vars

\* ------------------------------------------- the cycle-time sub-score

scoreCycleTimeLowerSteps(avgHours) ==
    IF atMost(avgHours, whole(24)) THEN 80
    ELSE IF atMost(avgHours, whole(72)) THEN 60
    ELSE IF atMost(avgHours, whole(168)) THEN 40
    ELSE 20

scoreCycleTime(avgHours) ==
    IF atMost(avgHours, whole(24)) THEN 100
    ELSE IF atMost(avgHours, whole(72)) THEN 80
    ELSE IF atMost(avgHours, whole(168)) THEN 60
    ELSE IF atMost(avgHours, whole(336)) THEN 40
    ELSE 20

\* a pull request merged so many hours after it was created, with no earlier commit
mergedAfter(hours) ==
    [Author |-> "alice", CreatedAt |-> 0, FirstCommitAt |-> Nil,
     FirstReviewAt |-> Nil, ApprovedAt |-> Nil, MergedAt |-> hours]

\* the cycle times, in hours, of the merged items of the scenarios
ScenarioCycleTimes == {10, 24, 50, 72, 200, 400}

\* three merged items inside a window of thirty days
ThreeMergedInit ==
    /\ calcIn \in [prs : [1..3 -> {mergedAfter(h) : h \in ScenarioCycleTimes}],
                   startDate : {0}, endDate : {WindowHours}]
    /\ calcOut = NoOutput
    /\ SyncIdle
    /\ PickIdle
    /\ CacheIdle
    /\ MuIdle
    /\ CollIdle
    /\ RollIdle
    /\ SaveIdle
    /\ RecurIdle

\* the cycle-time metrics of the window and the sub-score of their average
scoreCycleTimeCall ==
    /\ ~calcOut.returned
    /\ LET cycleTime == CalculateCycleTime(calcIn.prs, calcIn.startDate, calcIn.endDate)
       IN calcOut' = [returned |-> TRUE,
                      value |-> [AvgCycleTime |-> cycleTime.AvgCycleTime,
                                 MedianCycleTime |-> cycleTime.MedianCycleTime,
                                 P90CycleTime |-> cycleTime.P90CycleTime,
                                 CycleTimeScore |-> scoreCycleTime(cycleTime.AvgCycleTime)]]
    /\ UNCHANGED calcIn
    /\ UNCHANGED otherThanCalc

SpecThreeMerged == ThreeMergedInit /\ [][scoreCycleTimeCall]_vars

\* ------------------------------------------- Calculator.CalculateProductivityScore

scoreReview(metrics) ==
    LET forFirstReview ==
            IF atMost(metrics.AvgTimeToFirstReview, whole(4)) THEN 25
            ELSE IF atMost(metrics.AvgTimeToFirstReview, whole(8)) THEN 15
            ELSE IF atMost(metrics.AvgTimeToFirstReview, whole(24)) THEN 5
            ELSE 0
        forReviewsPerPR ==
            IF /\ atMost(whole(1), metrics.AvgReviewsPerPR)
               /\ atMost(metrics.AvgReviewsPerPR, whole(3)) THEN 25
            ELSE IF lessThan(Zero, metrics.AvgReviewsPerPR) THEN 10
            ELSE 0
        score == 50 + forFirstReview + forReviewsPerPR
    IN IF score < 100 THEN score ELSE 100

scoreDeployment(metrics) ==
    CASE metrics.DeploymentFrequency = "daily" -> 100
      [] metrics.DeploymentFrequency = "weekly" -> 75
      [] metrics.DeploymentFrequency = "monthly" -> 50
      [] OTHER -> 25

scoreQuality(changeFailureRate) ==
    IF atMost(changeFailureRate, whole(5)) THEN 100
    ELSE IF atMost(changeFailureRate, whole(10)) THEN 80
    ELSE IF atMost(changeFailureRate, whole(15)) THEN 60
    ELSE IF atMost(changeFailureRate, whole(30)) THEN 40
    ELSE 20

\* the fixed recommendation of each category
Recommendation ==
    [cycleTime |-> "Consider breaking down PRs into smaller, more manageable pieces",
     review |-> "Review response time could be improved - consider setting review SLAs",
     deployment |-> "Increase deployment frequency through automation and CI/CD improvements",
     quality |-> "Focus on reducing change failure rate through better testing"]

\* the weights are hundredths: 0.30, 0.25, 0.25, 0.20
CalculateProductivityScoreAtMost60(cycleTime, reviews, dora) ==
    LET cycleTimeScore == scoreCycleTime(cycleTime.AvgCycleTime)
        reviewScore == scoreReview(reviews)
        deploymentScore == scoreDeployment(dora)
        qualityScore == scoreQuality(dora.ChangeFailureRate)
    IN [OverallScore |-> quotient(cycleTimeScore * 30 + reviewScore * 25
                                  + deploymentScore * 25 + qualityScore * 20, 100),
        CycleTimeScore |-> cycleTimeScore,
        ReviewScore |-> reviewScore,
        DeploymentScore |-> deploymentScore,
        QualityScore |-> qualityScore,
        Recommendations |->
            (IF cycleTimeScore <= 60 THEN <<Recommendation.cycleTime>> ELSE <<>>)
            \o (IF reviewScore <= 60 THEN <<Recommendation.review>> ELSE <<>>)
            \o (IF deploymentScore <= 60 THEN <<Recommendation.deployment>> ELSE <<>>)
            \o (IF qualityScore <= 60 THEN <<Recommendation.quality>> ELSE <<>>)]

CalculateProductivityScore(cycleTime, reviews, dora) ==
    LET cycleTimeScore == scoreCycleTime(cycleTime.AvgCycleTime)
        reviewScore == scoreReview(reviews)
        deploymentScore == scoreDeployment(dora)
        qualityScore == scoreQuality(dora.ChangeFailureRate)
    IN [OverallScore |-> quotient(cycleTimeScore * 30 + reviewScore * 25
                                  + deploymentScore * 25 + qualityScore * 20, 100),
        CycleTimeScore |-> cycleTimeScore,
        ReviewScore |-> reviewScore,
        DeploymentScore |-> deploymentScore,
        QualityScore |-> qualityScore,
        Recommendations |->
            (IF cycleTimeScore < 60 THEN <<Recommendation.cycleTime>> ELSE <<>>)
            \o (IF reviewScore < 60 THEN <<Recommendation.review>> ELSE <<>>)
            \o (IF deploymentScore < 60 THEN <<Recommendation.deployment>> ELSE <<>>)
            \o (IF qualityScore < 60 THEN <<Recommendation.quality>> ELSE <<>>)]

\* the values of a metric at, just above and between the steps of its score
aroundSteps(steps) ==
    {Zero} \cup {whole(s) : s \in steps} \cup {whole(s + 1) : s \in steps}

\* any metrics of a window
ProductivityScoreInit ==
    /\ calcIn \in
         [cycleTime : [AvgCycleTime : aroundSteps({24, 72, 168, 336})],
          reviews : [AvgTimeToFirstReview : aroundSteps({4, 8, 24}),
                     AvgReviewsPerPR : {Zero, quotient(1, 2), whole(1), whole(3), whole(4)}],
          dora : [DeploymentFrequency : {"daily", "weekly", "monthly", "yearly"},
                  ChangeFailureRate : aroundSteps({5, 10, 15, 30})]]
    /\ calcOut = NoOutput
    /\ SyncIdle
    /\ PickIdle
    /\ CacheIdle
    /\ MuIdle
    /\ CollIdle
    /\ RollIdle
    /\ SaveIdle
    /\ RecurIdle

CalculateProductivityScoreCall ==
    /\ ~calcOut.returned
    /\ calcOut' = [returned |-> TRUE,
                   value |-> CalculateProductivityScore(calcIn.cycleTime, calcIn.reviews,
                                                        calcIn.dora)]
    /\ UNCHANGED calcIn
    /\ UNCHANGED otherThanCalc

SpecProductivityScore ==
    ProductivityScoreInit /\ [][CalculateProductivityScoreCall]_vars

\* ------------------------------------------- bot filtering

\* a user name is a sequence of pieces of text; "[bot]" is one such piece
hasSuffixBot(username) ==
    Len(username) > 0 /\ username[Len(username)] = "[bot]"

IsBotBySuffixOnly(username, customBotUsernames) ==
    hasSuffixBot(username)

IsBot(username, customBotUsernames) ==
    \/ hasSuffixBot(username)
    \/ \E k \in 1..Len(customBotUsernames) : username = customBotUsernames[k]

\* getUsername is the field of an item that holds its user name
filterByBot(items, customBotUsernames, excludeBots, botsOnly, getUsername) ==
    IF ~excludeBots /\ ~botsOnly THEN items
    ELSE SelectSeq(items, LAMBDA item :
            LET isBot == IsBot(item[getUsername], customBotUsernames)
            IN IF botsOnly /\ isBot THEN TRUE
               ELSE excludeBots /\ ~isBot)

FilterPullRequestsByBot(prs, customBotUsernames, excludeBots, botsOnly) ==
    filterByBot(prs, customBotUsernames, excludeBots, botsOnly, "Author")

FilterReviewsByBot(reviews, customBotUsernames, excludeBots, botsOnly) ==
    filterByBot(reviews, customBotUsernames, excludeBots, botsOnly, "Reviewer")

FilterTeamMembersByBot(members, customBotUsernames, excludeBots, botsOnly) ==
    filterByBot(members, customBotUsernames, excludeBots, botsOnly, "Login")

\* the flags a request asks for, from its query parameters
parseBotFilter(q) ==
    IF q.bots_only = "true" THEN [excludeBots |-> FALSE, botsOnly |-> TRUE]
    ELSE [excludeBots |-> q.exclude_bots # "false", botsOnly |-> FALSE]

Usernames ==
    {<<"alice">>, <<"dependabot", "[bot]">>, <<"[bot]", "x">>, <<"renovate">>}

CustomBotLists == {<<>>, <<<<"renovate">>>>, <<<<"renovate">>, <<"alice">>>>}

\* a request with any query parameters, any custom list, and pull requests,
\* reviews and members whose actors are the same users in the same order
BotFilterInit ==
    /\ calcIn \in [actors : UNION {[1..n -> Usernames] : n \in 0..MaxActors},
                   customBotUsernames : CustomBotLists,
                   query : [bots_only : {"", "true", "false"},
                            exclude_bots : {"", "true", "false"}]]
    /\ calcOut = NoOutput
    /\ SyncIdle
    /\ PickIdle
    /\ CacheIdle
    /\ MuIdle
    /\ CollIdle
    /\ RollIdle
    /\ SaveIdle
    /\ RecurIdle

\* the three lists of the request, as loaded
prsBy(actors) == [k \in 1..Len(actors) |-> [Number |-> k, Author |-> actors[k]]]
reviewsBy(actors) == [k \in 1..Len(actors) |-> [PRNumber |-> k, Reviewer |-> actors[k]]]
membersBy(actors) == [k \in 1..Len(actors) |-> [Position |-> k, Login |-> actors[k]]]

\* a metrics or team request filters what it loaded
BotFilterCall ==
    /\ ~calcOut.returned
    /\ LET bf == parseBotFilter(calcIn.query)
       IN calcOut' =
            [returned |-> TRUE,
             value |->
               [bf |-> bf,
                prs |-> FilterPullRequestsByBot(prsBy(calcIn.actors),
                            calcIn.customBotUsernames, bf.excludeBots, bf.botsOnly),
                reviews |-> FilterReviewsByBot(reviewsBy(calcIn.actors),
                            calcIn.customBotUsernames, bf.excludeBots, bf.botsOnly),
                members |-> FilterTeamMembersByBot(membersBy(calcIn.actors),
                            calcIn.customBotUsernames, bf.excludeBots, bf.botsOnly)]]
    /\ UNCHANGED calcIn
    /\ UNCHANGED otherThanCalc

SpecBotFilter == BotFilterInit /\ [][BotFilterCall]_vars

\* ------------------------------- syncSingleRepo and the calls it makes on the store

\* the entity classes syncSingleRepo saves after the repository, with the method
\* it calls for each, in the order of its calls (job.go 365-392)
EntityClasses == <<"PullRequests", "Reviews", "Deployments", "TeamMembers", "DailyMetrics">>
saveMethod ==
    [PullRequests |-> "SavePullRequests", Reviews |-> "SaveReviews",
     Deployments |-> "SaveDeployments", TeamMembers |-> "SaveTeamMembers",
     DailyMetrics |-> "SaveDailyMetricsBatch"]

\* the zero RepoSyncResult of a repository (job.go 343-346)
NoSyncResult == [Success |-> FALSE, Error |-> ""]

\* the error text of the collector
CollectError == "failed to collect repository"

\* the time SyncSingleRepo reads for LastSyncedAt, after the collection (job.go 395)
SyncedTime == StartTime + TickMinutes

\* the repositories ListRepositories may return for the target
ListedRepositories ==
    {Repository(1, l, p) : l \in {Nil, StartTime - 60}, p \in {Nil, StartTime - 90}}

SingleRepoInit ==
    /\ ssPc = "mark"
    /\ ssListed \in ListedRepositories
    /\ ssStore = [Repository |-> ssListed, PullRequests |-> 0, Reviews |-> 0,
                  Deployments |-> 0, TeamMembers |-> 0, DailyMetrics |-> 0]
    /\ ssCalls = <<>>
    /\ ssResult = NoSyncResult
    /\ SyncIdle
    /\ PickIdle
    /\ CacheIdle
    /\ MuIdle
    /\ CollIdle
    /\ RollIdle
    /\ CalcIdle
    /\ RecurIdle

\* target.ProcessStartAt = &now; SaveRepository(target); a failure is logged
\* (job.go 204-209)
markProcessStart(ok) ==
    /\ ssPc = "mark"
    /\ ssPc' = "collect"
    /\ ssCalls' = Append(ssCalls, <<"SaveRepository", "target", ok>>)
    /\ ssStore' = IF ok
                  THEN [ssStore EXCEPT !.Repository =
                          [ssListed EXCEPT !.ProcessStartAt = StartTime]]
                  ELSE ssStore
    /\ UNCHANGED <<ssListed, ssResult>>
    /\ UNCHANGED otherThanSave

\* mutant of collectFails: the error is noted and the call goes on to save
collectFailsGoesOn ==
    /\ ssPc = "collect"
    /\ ssPc' = "saveRepository"
    /\ ssResult' = [ssResult EXCEPT !.Error = CollectError]
    /\ UNCHANGED <<ssListed, ssStore, ssCalls>>
    /\ UNCHANGED otherThanSave

\* CollectAll returns an error: result.Error = err.Error(); return (job.go 350-359)
collectFails ==
    /\ ssPc = "collect"
    /\ ssPc' = "returned"
    /\ ssResult' = [ssResult EXCEPT !.Error = CollectError]
    /\ UNCHANGED <<ssListed, ssStore, ssCalls>>
    /\ UNCHANGED otherThanSave

\* CollectAll returns the data (job.go 350-351)
collectReturns ==
    /\ ssPc = "collect"
    /\ ssPc' = "saveRepository"
    /\ UNCHANGED <<ssListed, ssStore, ssCalls, ssResult>>
    /\ UNCHANGED otherThanSave

\* SaveRepository(data.Repository); a failure is logged (job.go 362-364)
saveRepository(ok) ==
    /\ ssPc = "saveRepository"
    /\ ssPc' = EntityClasses[1]
    /\ ssCalls' = Append(ssCalls, <<"SaveRepository", "data.Repository", ok>>)
    /\ ssStore' = IF ok
                  THEN [ssStore EXCEPT !.Repository = GetRepository(ssListed.ID)]
                  ELSE ssStore
    /\ UNCHANGED <<ssListed, ssResult>>
    /\ UNCHANGED otherThanSave

\* mutant of saveClass: a failed save ends the saving of entity classes
saveClassStopsOnError(k, ok) ==
    /\ ssPc = EntityClasses[k]
    /\ ssPc' = IF k < Len(EntityClasses) /\ ok THEN EntityClasses[k + 1]
               ELSE "saveLastSynced"
    /\ ssCalls' = Append(ssCalls, <<saveMethod[EntityClasses[k]], EntityClasses[k], ok>>)
    /\ ssStore' = IF ok THEN [ssStore EXCEPT ![EntityClasses[k]] = 1] ELSE ssStore
    /\ UNCHANGED <<ssListed, ssResult>>
    /\ UNCHANGED otherThanSave

\* SavePullRequests, SaveReviews, SaveDeployments, SaveTeamMembers, and
\* AggregateRange with SaveDailyMetricsBatch: a failure is logged (job.go 365-392)
saveClass(k, ok) ==
    /\ ssPc = EntityClasses[k]
    /\ ssPc' = IF k < Len(EntityClasses) THEN EntityClasses[k + 1]
               ELSE "saveLastSynced"
    /\ ssCalls' = Append(ssCalls, <<saveMethod[EntityClasses[k]], EntityClasses[k], ok>>)
    /\ ssStore' = IF ok THEN [ssStore EXCEPT ![EntityClasses[k]] = 1] ELSE ssStore
    /\ UNCHANGED <<ssListed, ssResult>>
    /\ UNCHANGED otherThanSave

\* data.Repository.LastSyncedAt = &now; SaveRepository(data.Repository);
\* result.Success = true; return (job.go 394-412)
saveLastSynced(ok) ==
    /\ ssPc = "saveLastSynced"
    /\ ssPc' = "returned"
    /\ ssCalls' = Append(ssCalls, <<"SaveRepository", "LastSyncedAt", ok>>)
    /\ ssStore' = IF ok
                  THEN [ssStore EXCEPT !.Repository =
                          [GetRepository(ssListed.ID) EXCEPT !.LastSyncedAt = SyncedTime]]
                  ELSE ssStore
    /\ ssResult' = [ssResult EXCEPT !.Success = TRUE]
    /\ UNCHANGED ssListed
    /\ UNCHANGED otherThanSave

SingleRepoNext ==
    \/ \E ok \in BOOLEAN : markProcessStart(ok)
    \/ collectFails
    \/ collectReturns
    \/ \E ok \in BOOLEAN : saveRepository(ok)
    \/ \E k \in DOMAIN EntityClasses, ok \in BOOLEAN : saveClass(k, ok)
    \/ \E ok \in BOOLEAN : saveLastSynced(ok)

SpecSingleRepo == SingleRepoInit /\ [][SingleRepoNext]_vars

\* ------------------------------- Invalidate after a sync, among GET requests,
\* over a store whose keys-only query and DeleteMulti do not fail

\* a sync has stored new data and, asked to clear the cache, calls Invalidate:
\* the handlers' output changes, the memory tier is replaced by an empty map
\* and a goroutine is started for the durable tier. The version of the data
\* counts these calls, so the version in a payload tells whether the payload
\* was computed before the call (job.go 214-217, cache.go 61-77)
SyncClearsCache ==
    /\ dataVersion < MaxDataVersion
    /\ BagCardinality(deletesInFlight) < MaxDeletesInFlight
    /\ dataVersion' = dataVersion + 1
    /\ entries' = [k \in URIs |-> NoEntry]
    /\ deletesInFlight' = deletesInFlight (+) SetToBag({newDelete})
    /\ lastEvents' = after("invalidate")
    /\ UNCHANGED <<cacheNow, dsMetricsCache, putsInFlight, lastResp>>
    /\ UNCHANGED otherThanCache

InvalidateNext ==
    \/ \E uri \in URIs, dsOk \in BOOLEAN, handlerOk \in BOOLEAN : Get(uri, dsOk, handlerOk)
    \/ \E uri \in URIs, handlerOk \in BOOLEAN : GetRefresh(uri, handlerOk)
    \/ \E p \in BagToSet(putsInFlight), ok \in BOOLEAN : PutMetricsCache(p, ok)
    \/ SyncClearsCache
    \/ ListsKeys
    \/ DeletesKeys
    \/ cleanup
    \/ CacheTick

SpecInvalidate == CacheInit /\ [][InvalidateNext]_vars

\* ------------------------------- the age of what the cache serves

\* time passes (as in CacheTick) and the data changes with it: the version of
\* the data is the clock in steps, so the version in a payload is the time the
\* handler computed it
AgeTick ==
    /\ cacheNow < CacheMaxTicks * CacheTickMinutes
    /\ putsInFlight = EmptyBag
    /\ deletesInFlight = EmptyBag
    /\ cacheNow' = cacheNow + CacheTickMinutes
    /\ dataVersion' = cacheNow' \div CacheTickMinutes
    /\ lastEvents' = after("tick")
    /\ UNCHANGED <<entries, dsMetricsCache, putsInFlight, deletesInFlight, lastResp>>
    /\ UNCHANGED otherThanCache

AgeNext ==
    \/ \E uri \in URIs, dsOk \in BOOLEAN, handlerOk \in BOOLEAN : Get(uri, dsOk, handlerOk)
    \/ \E uri \in URIs, handlerOk \in BOOLEAN : GetRefresh(uri, handlerOk)
    \/ \E p \in BagToSet(putsInFlight), ok \in BOOLEAN : PutMetricsCache(p, ok)
    \/ cleanup
    \/ NewResponseCache
    \/ AgeTick

SpecAge == CacheInit /\ [][AgeNext]_vars

\* ------------------------------- the handler over a store whose release may fail

\* the deferred ReleaseSyncLock returns an error (the transaction fails, or the
\* request's context has ended): it is logged, the stored lock is as it was
\* (job.go 170-174)
SyncReleaseFails(i) ==
    /\ pc[i] = "release"
    /\ pc' = [pc EXCEPT ![i] = "done"]
    /\ released' = [released EXCEPT ![i] = "error"]
    /\ UNCHANGED <<now, lock, repoStore, req, target, outcome, lease, markSaved, picks>>
    /\ UNCHANGED otherThanSync

ReleaseNext ==
    \/ Tick
    \/ \E i \in Invocations, r \in Requests : SyncBegin(i, r)
    \/ \E i \in Invocations : SyncListFails(i)
    \/ \E i \in Invocations : SyncSelect(i)
    \/ \E i \in Invocations, ok \in BOOLEAN : SyncMark(i, ok)
    \/ \E i \in Invocations : SyncCollectFails(i)
    \/ \E i \in Invocations : SyncCollect(i)
    \/ \E i \in Invocations, ok \in BOOLEAN : SyncSaveRepository(i, ok)
    \/ \E i \in Invocations : SyncSaveEntities(i)
    \/ \E i \in Invocations, ok \in BOOLEAN : SyncSaveLastSynced(i, ok)
    \/ \E i \in Invocations : SyncRelease(i)
    \/ \E i \in Invocations : SyncReleaseFails(i)

SpecRelease == SyncInit /\ [][ReleaseNext]_vars

\* ------------------------------- the scheduler's invocations, for ever

\* the request of the scheduler: no repository named, the lock taken
ScheduledRequest == CHOOSE r \in ScheduledRequests : ~r.NoLock

\* the minutes between two invocations: less than processStartGuard, or the
\* interval of the request
SchedulePeriods == {TickMinutes, ScheduledRequest.Interval}

\* a stored time as the invocation d minutes later sees it: the clock of the
\* model stays at StartTime and the stored times move into the past; a time
\* more than StartTime minutes ago is kept at that distance, which is further
\* than the interval and the guard reach
earlier(t, d) == IF t = Nil THEN Nil ELSE IF t - d < 0 THEN 0 ELSE t - d

\* the repositories ListRepositories returns rcPeriod minutes after the
\* invocation before
listedLater ==
    [id \in RepoIds |->
       [rcRepos[id] EXCEPT !.LastSyncedAt = earlier(@, rcPeriod),
                           !.ProcessStartAt = earlier(@, rcPeriod)]]

RecurInit ==
    /\ rcRepos = [id \in RepoIds |->
                    Repository(id,
                               CASE id = 1 -> Nil
                                 [] id = 2 -> StartTime - 120
                                 [] OTHER -> StartTime - 60,
                               Nil)]
    /\ rcPc = "idle"
    /\ rcTarget = 0
    /\ rcFailing \in {0} \cup RepoIds
    /\ rcPeriod \in SchedulePeriods
    /\ rcSelected = {}
    /\ SyncIdle
    /\ PickIdle
    /\ CacheIdle
    /\ MuIdle
    /\ CollIdle
    /\ RollIdle
    /\ CalcIdle
    /\ SaveIdle

\* the next invocation of Sync: the lock is free, the repositories are listed,
\* pickSyncTarget selects one or none, and the selected one is stored with
\* ProcessStartAt = now (job.go 160-209)
RecurSelect ==
    /\ rcPc = "idle"
    /\ LET repos == listedLater
           k == pickSyncTarget(repos, ScheduledRequest, StartTime)
       IN IF k = 0
          THEN /\ rcRepos' = repos
               /\ rcTarget' = 0
               /\ UNCHANGED <<rcPc, rcSelected>>
          ELSE /\ rcRepos' = [repos EXCEPT ![k].ProcessStartAt = StartTime]
               /\ rcTarget' = k
               /\ rcPc' = "collect"
               /\ rcSelected' = rcSelected \cup {k}
    /\ UNCHANGED <<rcFailing, rcPeriod>>
    /\ UNCHANGED otherThanRecur

\* syncSingleRepo for the repository whose collection fails on every attempt:
\* nothing is stored, the lock is released (job.go 350-359)
RecurCollectFails ==
    /\ rcPc = "collect"
    /\ rcTarget = rcFailing
    /\ rcPc' = "idle"
    /\ UNCHANGED <<rcRepos, rcTarget, rcFailing, rcPeriod, rcSelected>>
    /\ UNCHANGED otherThanRecur

\* mutant of RecurSynced: the last write, with LastSyncedAt, is left out
RecurSyncedWithoutTime ==
    /\ rcPc = "collect"
    /\ rcTarget # rcFailing
    /\ rcPc' = "idle"
    /\ rcRepos' = [rcRepos EXCEPT ![rcTarget] = GetRepository(rcTarget)]
    /\ UNCHANGED <<rcTarget, rcFailing, rcPeriod, rcSelected>>
    /\ UNCHANGED otherThanRecur

\* syncSingleRepo for any other repository: every write succeeds, the last one
\* stores data.Repository with LastSyncedAt = now; the lock is released
\* (job.go 361-412)
RecurSynced ==
    /\ rcPc = "collect"
    /\ rcTarget # rcFailing
    /\ rcPc' = "idle"
    /\ rcRepos' = [rcRepos EXCEPT ![rcTarget] =
                     [GetRepository(rcTarget) EXCEPT !.LastSyncedAt = StartTime]]
    /\ UNCHANGED <<rcTarget, rcFailing, rcPeriod, rcSelected>>
    /\ UNCHANGED otherThanRecur

RecurNext ==
    \/ RecurSelect
    \/ RecurCollectFails
    \/ RecurSynced

\* the scheduler fires again and again, and a handler that was started runs
\* to its end
SpecRecur ==
    /\ RecurInit
    /\ [][RecurNext]_vars
    /\ WF_vars(RecurSelect)
    /\ WF_vars(RecurCollectFails)
    /\ WF_vars(RecurSynced)

\* ------------------------------- the rows of one date, merged in an order

\* the row AggregateDailyMetrics stores for a repository and the date: the
\* pull requests opened and merged on the day, the reviews submitted, the
\* average cycle time of the merged ones (aggregator.go 62-108)
DailyMetrics(repositoryID, opened, merged, reviews, hours) ==
    [ID |-> <<repositoryID, "2006-01-02">>,
     RepositoryID |-> repositoryID,
     Date |-> "2006-01-02",
     AvgCycleTime |-> IF merged > 0 THEN quotient(hours, 1) ELSE Zero,
     AvgCodingTime |-> Zero,
     AvgPickupTime |-> Zero,
     AvgReviewTime |-> Zero,
     AvgMergeTime |-> Zero,
     PRsOpened |-> opened,
     PRsMerged |-> merged,
     PRsClosed |-> merged,
     ReviewsSubmitted |-> reviews,
     AvgReviewsPerPR |-> IF merged > 0 THEN quotient(reviews, merged) ELSE Zero,
     TotalAdditions |-> merged,
     TotalDeletions |-> 0,
     DeploymentCount |-> 0,
     ActiveContributors |-> IF opened + merged + reviews > 0 THEN 1 ELSE 0]

\* the rows a repository may have stored for the date
DailyRows(repositoryID) ==
    {DailyMetrics(repositoryID, opened, merged, reviews, hours) :
        opened \in 0..1, merged \in 0..1, reviews \in 0..1, hours \in 1..MaxHour}

\* the first row of a date: copied, RepositoryID cleared (metrics.go 161-167)
copied(dm) == [dm EXCEPT !.RepositoryID = ""]

\* a further row of the date merged into the grouped one (metrics.go 168-194)
mergedRow(agg, dm) ==
    LET totalOpened == agg.PRsOpened + dm.PRsOpened
        ReviewsSubmitted == agg.ReviewsSubmitted + dm.ReviewsSubmitted
    IN mergedInto(agg, dm) @@
       [ID |-> agg.ID,
        RepositoryID |-> agg.RepositoryID,
        Date |-> agg.Date,
        PRsOpened |-> totalOpened,
        PRsClosed |-> agg.PRsClosed + dm.PRsClosed,
        ReviewsSubmitted |-> ReviewsSubmitted,
        AvgReviewsPerPR |-> IF totalOpened > 0
                            THEN quotient(ReviewsSubmitted, totalOpened)
                            ELSE agg.AvgReviewsPerPR,
        TotalAdditions |-> agg.TotalAdditions + dm.TotalAdditions,
        TotalDeletions |-> agg.TotalDeletions + dm.TotalDeletions,
        DeploymentCount |-> agg.DeploymentCount + dm.DeploymentCount,
        ActiveContributors |-> agg.ActiveContributors + dm.ActiveContributors]

\* the loop over the repositories, for the rows of one date
RECURSIVE groupedRows(_, _)
groupedRows(agg, daily) ==
    IF daily = <<>> THEN agg
    ELSE groupedRows(mergedRow(agg, Head(daily)), Tail(daily))

\* collectDailyMetrics for the rows of one date, in the order of repoIDs
collectDailyMetricsOfDate(daily) == groupedRows(copied(Head(daily)), Tail(daily))

\* the ways to order the repositories
RepoOrders ==
    {p \in [1..NumRepos -> 1..NumRepos] : \A i, j \in 1..NumRepos : p[i] = p[j] => i = j}

\* the stored row of each repository and the order of repoIDs in the request
RowOrderInit ==
    /\ calcIn \in [rows : [1..NumRepos -> UNION {DailyRows(i) : i \in 1..NumRepos}],
                   repoIDs : RepoOrders]
    /\ \A i \in 1..NumRepos : calcIn.rows[i].RepositoryID = i
    /\ calcOut = NoOutput
    /\ SyncIdle
    /\ PickIdle
    /\ CacheIdle
    /\ MuIdle
    /\ CollIdle
    /\ RollIdle
    /\ SaveIdle
    /\ RecurIdle

\* the handler merges the rows in the order of repoIDs
RowOrderCall ==
    /\ ~calcOut.returned
    /\ calcOut' = [returned |-> TRUE,
                   value |-> collectDailyMetricsOfDate(
                                [k \in 1..NumRepos |-> calcIn.rows[calcIn.repoIDs[k]]])]
    /\ UNCHANGED calcIn
    /\ UNCHANGED otherThanCalc

SpecRowOrder == RowOrderInit /\ [][RowOrderCall]_vars

\* ------------------------------------------------------------------ claims

\* the positions of the Collector + persist sequence of an invocation
inFlight == {"collect", "saveRepository", "saveEntities", "saveLastSynced"}
answered(i) == pc[i] \in {"release", "done"}

\* invocations that acquired the lease, have not run their release and whose lease is unexpired
leaseHolders ==
    {i \in Owners :
        lease[i] # NoLock /\ released[i] = "none" /\ now < lease[i].ExpiresAt}

C3_ReleaseOnlyOwn ==
    [][\A i \in Owners :
         (pc[i] = "locked" /\ pc'[i] = "done") =>
            /\ (lock # NoLock /\ lock.LockedBy = i) => lock' = NoLock
            /\ (lock = NoLock \/ lock.LockedBy # i) => lock' = lock]_vars

\* C3 witness: an invocation whose lease was taken over has run its release and
\* the newer holder's lease is still stored
C3_Witness ==
    \E i \in Owners :
        /\ released[i] = "notOwner"
        /\ lock # NoLock
        /\ lock.LockedBy # i

structuredOutcomes == {"skipped", "noTarget", "synced", "syncFailed"}

C9_GuardedWhileInFlight ==
    [][\A b \in Invocations :
         (pc[b] = "list" /\ pc'[b] = "mark" /\ ~req[b].Force) =>
            ~\E a \in Invocations \ {b} :
                /\ pc[a] \in inFlight
                /\ markSaved[a]
                /\ ~req[a].Force
                /\ target[a].ID = target'[b].ID
                /\ now - target[a].ProcessStartAt < processStartGuard]_vars

\* the two checks, restated from the claim
intervalOf(r) == IF r.Interval > 0 THEN r.Interval ELSE SyncIntervalMinutes
intervalElapsed(repo, r, t) ==
    repo.LastSyncedAt = Nil \/ t - repo.LastSyncedAt >= intervalOf(r)
guardPassed(repo, t) ==
    repo.ProcessStartAt = Nil \/ t - repo.ProcessStartAt >= processStartGuard
eligibleRepos ==
    {k \in DOMAIN pickRepos :
        intervalElapsed(pickRepos[k], pickReq, pickNow) /\ guardPassed(pickRepos[k], pickNow)}

\* C6: with no repository named the result is an eligible repository whose
\* last-successful-sync time is minimal (never synced is before every time), and
\* it is nil exactly when no repository is eligible.
C6_PicksOldestEligible ==
    (pickResult # Nil /\ pickReq.Repo = "") =>
        /\ pickResult = 0 <=> eligibleRepos = {}
        /\ pickResult # 0 =>
             /\ pickResult \in eligibleRepos
             /\ \A k \in eligibleRepos :
                  pickRepos[pickResult].LastSyncedAt <= pickRepos[k].LastSyncedAt

\* C6 witness: a never-synced repository was chosen over an eligible synced one
\* while a third repository was not eligible
C6_Witness ==
    /\ pickResult \notin {Nil, 0}
    /\ pickReq.Repo = ""
    /\ pickRepos[pickResult].LastSyncedAt = Nil
    /\ \E k \in eligibleRepos : pickRepos[k].LastSyncedAt # Nil
    /\ \E k \in DOMAIN pickRepos : k \notin eligibleRepos

\* C7: a selected repository has passed the interval check, whatever force says;
\* it has passed the guard check unless it was named and force was set; and with
\* no repository named force does not change the result.
C7_ChecksRespected ==
    pickResult # Nil =>
        /\ pickResult # 0 =>
             /\ intervalElapsed(pickRepos[pickResult], pickReq, pickNow)
             /\ guardPassed(pickRepos[pickResult], pickNow)
                   \/ (pickReq.Repo # "" /\ pickReq.Force)
             /\ pickReq.Repo # "" => matchRepoName(pickRepos[pickResult], pickReq.Repo)
        /\ pickReq.Repo = "" =>
             pickSyncTarget(pickRepos, [pickReq EXCEPT !.Force = ~pickReq.Force], pickNow)
                = pickResult

\* C7 witness: a named repository with a marker younger than the guard was
\* selected under force, its interval having elapsed
C7_Witness ==
    /\ pickResult \notin {Nil, 0}
    /\ pickReq.Repo # "" /\ pickReq.Force
    /\ ~guardPassed(pickRepos[pickResult], pickNow)
    /\ pickRepos[pickResult].LastSyncedAt # Nil

\* invocation i answers its selection in this step (the list was read)
selects(i) == pc[i] = "list" /\ pc'[i] # "list" /\ outcome'[i] # "error500"
\* one selection was made so far, of the never-synced repository, and the
\* invocation that made it has answered a successful sync
neverSynced ==
    /\ Len(picks) = 1
    /\ picks[1][2] = 1
    /\ outcome[picks[1][1]] = "synced"

lastRespOk(key, tiers) ==
    /\ lastResp.key = key
    /\ lastResp.tier \in tiers
    /\ lastResp.statusCode = 200
\* the last event was that response
justAnswered == lastEvents # <<>> /\ lastEvents[Len(lastEvents)] = "get"
\* the last event emptied the memory tier only, right after that response
justEmptied == lastEvents = <<"get", "new">>
sameOutput ==
    /\ lastResp'.body = lastResp.body
    /\ lastResp'.statusCode = lastResp.statusCode
    /\ lastResp'.contentType = lastResp.contentType
\* the durable tier holds, unexpired, the record written for the last response
storedFor(key) ==
    /\ GetMetricsCacheOk(key)
    /\ dsMetricsCache[key].Body = lastResp.body

mayBeGet(key) ==
    /\ lastResp'.key = key
    /\ lastEvents' # <<>>
    /\ lastEvents'[Len(lastEvents')] = "get"
    /\ dsMetricsCache' = dsMetricsCache
    /\ deletesInFlight' = deletesInFlight
    /\ cacheNow' = cacheNow
\* the tiers' answers, restated from the claim
memoryHit(key) ==
    entries[key] # NoEntry /\ cacheNow - entries[key].createdAt <= cacheTTLMinutes
durableHit(key, dsOk) ==
    /\ dsOk
    /\ dsMetricsCache[key] # NoRecord
    /\ cacheNow - dsMetricsCache[key].CreatedAt <= dsMetricsCache[key].TTLSec
handlerCalls(calls) == Cardinality({n \in DOMAIN calls : calls[n] = "next.ServeHTTP"})

\* C11: a GET without refresh looks at the memory tier first; on a memory hit
\* it calls neither the durable tier nor the handler; on a durable hit it puts
\* the value into the memory tier, answers with it and does not call the
\* handler; it calls the handler, once, exactly when both tiers miss.
C11_TierOrder ==
    [][\A key \in URIs :
          mayBeGet(key) =>
             \A dsOk \in BOOLEAN, handlerOk \in BOOLEAN :
                Get(key, dsOk, handlerOk) =>
                   /\ lastResp'.calls[1] = "getFromMemory"
                   /\ memoryHit(key) =>
                        /\ lastResp'.calls = <<"getFromMemory">>
                        /\ lastResp'.tier = "memory"
                        /\ lastResp'.body = entries[key].body
                        /\ UNCHANGED <<entries, putsInFlight>>
                   /\ (~memoryHit(key) /\ durableHit(key, dsOk)) =>
                        /\ lastResp'.calls = <<"getFromMemory", "getFromDatastore">>
                        /\ lastResp'.tier = "datastore"
                        /\ lastResp'.body = dsMetricsCache[key].Body
                        /\ entries'[key].body = dsMetricsCache[key].Body
                        /\ UNCHANGED putsInFlight
                   /\ (~memoryHit(key) /\ ~durableHit(key, dsOk)) =>
                        /\ lastResp'.calls[2] = "getFromDatastore"
                        /\ lastResp'.calls[3] = "next.ServeHTTP"
                        /\ lastResp'.tier = "handler"
                   /\ handlerCalls(lastResp'.calls)
                        = IF ~memoryHit(key) /\ ~durableHit(key, dsOk) THEN 1 ELSE 0]_vars

\* C11 witness: a GET was answered by the durable tier while the memory tier
\* had no entry, the value is in the memory tier and no handler ran
C11_Witness ==
    /\ lastResp.calls = <<"getFromMemory", "getFromDatastore">>
    /\ lastResp.tier = "datastore"
    /\ entries[lastResp.key].body = lastResp.body
    /\ putsInFlight = EmptyBag
    /\ dataVersion = MaxDataVersion

\* a step that may be a GET with refresh=true whose key is key
mayBeRefresh(key) ==
    /\ lastResp'.key = key
    /\ lastEvents' # <<>>
    /\ lastEvents'[Len(lastEvents')] = "refresh"
\* an error body, in the memory tier, in the durable tier or on its way there
errorBody == <<"failed to get metrics">>
noErrorStored ==
    /\ \A k \in URIs :
          /\ entries[k] # NoEntry =>
                /\ entries[k].statusCode \in 200..299
                /\ entries[k].body # errorBody
          /\ dsMetricsCache[k] # NoRecord => dsMetricsCache[k].Body # errorBody
    /\ \A p \in BagToSet(putsInFlight) : p.Body # errorBody
\* after a request that ran the handler: its success is in the memory tier and
\* on its way to the durable tier, its failure left both as they were
storedIffSuccess(key, handlerOk) ==
    "next.ServeHTTP" \in {lastResp'.calls[n] : n \in DOMAIN lastResp'.calls} =>
        IF handlerOk
        THEN /\ lastResp'.statusCode = 200
             /\ entries'[key].body = lastResp'.body
             /\ entries'[key].statusCode = lastResp'.statusCode
             /\ entries'[key].createdAt = cacheNow
             /\ \E p \in BagToSet(putsInFlight') :
                   /\ p.Key = key /\ p.Body = lastResp'.body
                   /\ CopiesIn(p, putsInFlight') = CopiesIn(p, putsInFlight) + 1
        ELSE /\ lastResp'.statusCode >= 300
             /\ UNCHANGED <<entries, putsInFlight, dsMetricsCache>>

\* C12: a response of the handler is stored exactly when it is a success: a
\* success is in the memory tier when the request ends and has been handed to
\* the durable tier's goroutine, and no error response is in the memory tier,
\* in the durable tier or on its way to it.
C12_StoredIffSuccess ==
    /\ []noErrorStored
    /\ [][\A key \in URIs :
             /\ mayBeGet(key) =>
                  \A dsOk \in BOOLEAN, handlerOk \in BOOLEAN :
                     Get(key, dsOk, handlerOk) => storedIffSuccess(key, handlerOk)
             /\ mayBeRefresh(key) =>
                  \A uri \in URIs, handlerOk \in BOOLEAN :
                     GetRefresh(uri, handlerOk) => storedIffSuccess(key, handlerOk)]_vars

\* C12 witness: the handler has just answered an error, nothing of it is
\* stored, and an earlier success is in both tiers
C12_Witness ==
    /\ lastResp.statusCode = 500
    /\ lastResp.tier = "handler"
    /\ entries[lastResp.key] = NoEntry
    /\ dsMetricsCache[lastResp.key] = NoRecord
    /\ \E k \in URIs : entries[k] # NoEntry /\ dsMetricsCache[k] # NoRecord

\* the last event was a refresh that the handler answered with a success
justRefreshed ==
    /\ lastEvents # <<>>
    /\ lastEvents[Len(lastEvents)] = "refresh"
    /\ lastResp.statusCode = 200

\* C13: a request with refresh=true runs the handler whatever the tiers hold,
\* and after its success the next request without refresh for the same logical
\* query is answered by the memory tier with the refreshed payload.
C13_RefreshThenMemory ==
    [][/\ \A key \in URIs :
             mayBeRefresh(key) =>
                \A uri \in URIs, handlerOk \in BOOLEAN :
                   GetRefresh(uri, handlerOk) => handlerCalls(lastResp'.calls) = 1
       /\ justRefreshed =>
             \A uri \in URIs, dsOk \in BOOLEAN, handlerOk \in BOOLEAN :
                (Encode(uri) = lastResp.key /\ Get(uri, dsOk, handlerOk)) =>
                   /\ lastResp'.tier = "memory"
                   /\ lastResp'.body = lastResp.body]_vars

\* key had a record when an Invalidate was called whose goroutine has not ended
awaitsDeletion(key) == \E d \in BagToSet(deletesInFlight) : key \in d.existed

\* C14: when Invalidate returns the memory tier holds no entry, the durable
\* tier is as it was and a goroutine for its deletion has been started; over a
\* store that does not fail, every key that had a durable record when
\* Invalidate was called has no record at some later moment.
C14_InvalidateClears ==
    /\ [][Invalidate =>
            /\ \A k \in URIs : entries'[k] = NoEntry
            /\ dsMetricsCache' = dsMetricsCache
            /\ BagCardinality(deletesInFlight') = BagCardinality(deletesInFlight) + 1]_vars
    /\ \A key \in URIs : awaitsDeletion(key) ~> dsMetricsCache[key] = NoRecord

\* C14 witness: Invalidate was called while both keys had a record; the memory
\* tier is empty and the goroutine has listed both keys and not yet deleted them
C14_Witness ==
    /\ \A k \in URIs : entries[k] = NoEntry /\ dsMetricsCache[k] # NoRecord
    /\ \E d \in BagToSet(deletesInFlight) :
          d.listed /\ d.existed = URIs /\ d.keys = URIs

\* the durable tier's read fails for key: the store answers an error, or the
\* record is missing or older than its TTL
durableReadFails(key, dsOk) ==
    \/ ~dsOk
    \/ dsMetricsCache[key] = NoRecord
    \/ cacheNow - dsMetricsCache[key].CreatedAt > dsMetricsCache[key].TTLSec

\* C15: when the memory tier misses and the durable tier's read fails, the
\* handler runs and the client gets the handler's response, and a success is
\* in the memory tier afterwards; a failed write to the durable tier changes
\* neither the response nor the memory tier nor the durable tier.
C15_DurableFailuresDegrade ==
    [][/\ \A key \in URIs :
             mayBeGet(key) =>
                \A dsOk \in BOOLEAN, handlerOk \in BOOLEAN :
                   (~memoryHit(key) /\ durableReadFails(key, dsOk)
                       /\ Get(key, dsOk, handlerOk)) =>
                      /\ lastResp'.tier = "handler"
                      /\ lastResp'.statusCode = CycleTime(key, handlerOk).statusCode
                      /\ lastResp'.contentType = CycleTime(key, handlerOk).contentType
                      /\ lastResp'.body = CycleTime(key, handlerOk).body
                      /\ handlerOk => /\ entries'[key].body = lastResp'.body
                                      /\ entries'[key].createdAt = cacheNow
       /\ \A p \in BagToSet(putsInFlight) :
             PutMetricsCache(p, FALSE) =>
                UNCHANGED <<lastResp, entries, dsMetricsCache>>]_vars

\* C15 witness: the handler has just answered a success for a key whose
\* durable record is older than its TTL, and the response is in the memory tier
C15_Witness ==
    /\ lastResp.tier = "handler"
    /\ lastResp.statusCode = 200
    /\ lastResp.calls[1] = "getFromMemory"
    /\ dsMetricsCache[lastResp.key] # NoRecord
    /\ cacheNow - dsMetricsCache[lastResp.key].CreatedAt > cacheTTLMinutes
    /\ entries[lastResp.key].body = lastResp.body
    /\ entries[lastResp.key].createdAt = cacheNow

\* the goroutines that are reading or writing the map
accessing == {g \in Goroutines : muPc[g] = "accessing"}
writing == {g \in accessing : muOp[g].name \in MapWriters}

\* C16: a goroutine reads the map only while it holds the lock in read or
\* write mode and writes it only while it holds it in write mode, no write
\* overlaps another access, and an entry once allocated keeps its fields.
C16_MapGuarded ==
    /\ [](/\ \A g \in accessing : g \in muReaders \/ muWriter = g
          /\ \A g \in writing : muWriter = g /\ accessing = {g})
    /\ [][\A n \in DOMAIN muHeap : muHeap'[n] = muHeap[n]]_vars

\* C16 witness: two goroutines read the map at once while a third waits to
\* insert, and the map holds an entry allocated earlier
C16_Witness ==
    /\ Cardinality(accessing) = 2
    /\ writing = {}
    /\ \E g \in Goroutines : muPc[g] = "waiting" /\ muOp[g].name = "storeAll"
    /\ \E k \in URIs : muMap[k] # 0

\* an invocation answers that the selected repository was synced, having been
\* asked to clear the cache
syncedAndAskedToClear ==
    \E i \in Invocations :
        outcome[i] = "none" /\ outcome'[i] = "synced" /\ req[i].ClearCache

\* C17: a step of the Sync handler empties the memory tier and starts the
\* deletion of every stored durable record exactly when it answers "synced" to
\* a request that set clear_cache; every other step of the handler leaves the
\* memory tier, the durable tier and the goroutines at them as they are.
C17_ClearsIffAskedAndSynced ==
    [][pc' # pc =>
         IF syncedAndAskedToClear
         THEN /\ entries' = [k \in URIs |-> NoEntry]
              /\ deletesInFlight' = deletesInFlight (+)
                   SetToBag({[listed |-> FALSE, keys |-> {},
                              existed |-> {k \in URIs : dsMetricsCache[k] # NoRecord}]})
              /\ UNCHANGED dsMetricsCache
         ELSE UNCHANGED <<entries, dsMetricsCache, deletesInFlight, putsInFlight>>]_vars

\* C17 witness: a warm cache whose memory tier has been emptied by an invocation
\* that synced with clear_cache set, the durable records awaiting deletion
C17_Witness ==
    /\ \E i \in Invocations : outcome[i] = "synced" /\ req[i].ClearCache
    /\ entries = [k \in URIs |-> NoEntry]
    /\ \E d \in BagToSet(deletesInFlight) : d.existed = URIs
    /\ dsMetricsCache = warmRecords

\* the numbers of a list of pull requests, and the items of a list updated at
\* or after a time
numbersOf(prs) == [k \in 1..Len(prs) |-> prs[k].Number]
notBefore(prs, since) == SelectSeq(prs, LAMBDA pr : pr.UpdatedAt >= since)
sinceOf(syncRange) == CollectOptionsForRange(syncRange).Since
pageBudget(syncRange) ==
    CollectOptionsForRange(syncRange).MaxPages * CollectOptionsForRange(syncRange).PerPage
withinBudget(feed, syncRange) ==
    SubSeq(feed, 1, IF Len(feed) < pageBudget(syncRange)
                    THEN Len(feed) ELSE pageBudget(syncRange))

\* C18 as stated: CollectPullRequests returns exactly the items of the feed
\* whose update time is not before the window start.
C18_AllInWindow ==
    collResult.returned =>
        numbersOf(collResult.data.PullRequests)
            = numbersOf(notBefore(collFeed, sinceOf(collRange)))

\* C18: CollectPullRequests returns exactly the items whose update time is not
\* before the window start among the first MaxPages * PerPage items of the feed.
C18_AllInWindowWithinBudget ==
    collResult.returned =>
        numbersOf(collResult.data.PullRequests)
            = numbersOf(notBefore(withinBudget(collFeed, collRange), sinceOf(collRange)))

\* C18 witness: a day sync of a feed with more items in the window than the
\* three pages hold, the last of them updated exactly at the window start
C18_Witness ==
    /\ collResult.returned
    /\ collRange = "day"
    /\ Len(collFeed) > pageBudget("day")
    /\ collFeed[Len(collFeed)].UpdatedAt = sinceOf("day")
    /\ Len(collResult.data.PullRequests) = pageBudget("day")

\* the loop of CollectPullRequests asks for a page if it is within the page
\* budget and every page before it was full and held no item updated before
\* the window start
pageRequested(feed, syncRange, page) ==
    /\ page >= 1
    /\ page <= CollectOptionsForRange(syncRange).MaxPages
    /\ \A q \in 1..(page - 1) :
         LET prs == ListPullRequests(feed, q, CollectOptionsForRange(syncRange).PerPage)
         IN /\ Len(prs) = CollectOptionsForRange(syncRange).PerPage
            /\ \A k \in 1..Len(prs) : prs[k].UpdatedAt >= sinceOf(syncRange)

\* a fatal failure: the repository identity, or a page of the feed that is asked for
fatalFailure ==
    \/ collFails.GetRepository
    \/ pageRequested(collFeed, collRange, collFails.ListPullRequests)

\* the call for an item did not fail
callOk(number, call) == <<number, call>> \notin collFails.perItem

\* what the same call returns when nothing fails
cleanData == CollectAll(collFeed, CollectOptionsForRange(collRange), NoFails).data

\* C19: CollectAll returns an error exactly when fetching the repository or
\* listing a requested page of the feed fails, and then no data; otherwise it
\* returns the same pull requests as a call in which nothing fails, every field
\* of a pull request and every review whose own call succeeded as in that
\* call, and the deployments and contributors as in that call unless their
\* own listing failed.
C19_FatalAndNonFatal ==
    collResult.returned =>
        /\ collResult.err # "" <=> fatalFailure
        /\ collResult.err # "" => collResult.data = NoData
        /\ collResult.err = "" =>
             LET got == collResult.data
             IN /\ got.Repository = cleanData.Repository
                /\ numbersOf(got.PullRequests) = numbersOf(cleanData.PullRequests)
                /\ \A k \in 1..Len(got.PullRequests) :
                     LET pr == got.PullRequests[k]
                         clean == cleanData.PullRequests[k]
                     IN /\ pr.UpdatedAt = clean.UpdatedAt
                        /\ callOk(pr.Number, "GetPullRequest") => pr.Stats = clean.Stats
                        /\ callOk(pr.Number, "ListPullRequestFiles")
                             => pr.FileExtStats = clean.FileExtStats
                        /\ callOk(pr.Number, "GetFirstCommitTime")
                             => pr.FirstCommitAt = clean.FirstCommitAt
                        /\ callOk(pr.Number, "ListPullRequestReviews")
                             => pr.FirstReviewAt = clean.FirstReviewAt
                /\ \A k \in 1..Len(cleanData.Reviews) :
                     LET review == cleanData.Reviews[k]
                     IN callOk(review.PullRequest, "ListPullRequestReviews") =>
                          \E j \in 1..Len(got.Reviews) :
                             /\ got.Reviews[j].PullRequest = review.PullRequest
                             /\ callOk(review.PullRequest, "ListReviewComments")
                                  => got.Reviews[j] = review
                /\ ~collFails.ListDeployments => got.Deployments = cleanData.Deployments
                /\ ~collFails.ListContributors => got.TeamMembers = cleanData.TeamMembers

\* C19 witness: a call that returns two pull requests although the review
\* listing of the first, the detail call of the second and the deployments
\* listing failed
C19_Witness ==
    /\ collResult.returned
    /\ collResult.err = ""
    /\ collFails.perItem = {<<1, "ListPullRequestReviews">>, <<2, "GetPullRequest">>}
    /\ collFails.ListDeployments
    /\ collFails.ListPullRequests = 0
    /\ Len(collResult.data.PullRequests) = 2
    /\ Len(collResult.data.Reviews) = 1

\* C20 as stated: a step never changes the stored row of a day that has a row
\* and lies entirely in the past.
C20_PastRowsKept ==
    [][\A d \in RollDays :
          rollStore[d] # NoRow /\ (d + 1) * 2 <= rollNow => rollStore'[d] = rollStore[d]]_vars

\* the first instants of the calendar days from the day of a start through the
\* day of an end, in ascending order
daysThrough(startDate, endDate) ==
    [k \in 1..((endDate \div 2) - (startDate \div 2) + 1) |-> ((startDate \div 2) + k - 1) * 2]

\* C21 as stated: AggregateRange returns one row for each calendar day from the
\* day of start through the day of end, in ascending date order, and the row
\* of a day on which nothing was opened counts zero.
C21_OneRowPerDay ==
    calcOut.returned =>
        /\ [k \in 1..Len(calcOut.value) |-> calcOut.value[k].Date]
             = daysThrough(calcIn.startDate, calcIn.endDate)
        /\ \A k \in 1..Len(calcOut.value) :
             (\A j \in 1..Len(calcIn.prs) :
                 calcIn.prs[j].CreatedAt \div 2 # calcOut.value[k].Date \div 2)
             => calcOut.value[k].PRsOpened = 0


\* C23: each derived duration of a pull request is 0 whenever a timestamp it
\* needs is absent: the cycle time without MergedAt, the coding time without
\* FirstCommitAt, the pickup time without FirstReviewAt, the review time
\* without FirstReviewAt or ApprovedAt, the merge time without ApprovedAt or
\* MergedAt, whatever the other timestamps are.
C23_AbsentGivesZero ==
    calcOut.returned =>
        /\ calcIn.MergedAt = Nil => calcOut.value.CycleTime = 0
        /\ calcIn.FirstCommitAt = Nil => calcOut.value.CodingTime = 0
        /\ calcIn.FirstReviewAt = Nil => calcOut.value.PickupTime = 0
        /\ (calcIn.FirstReviewAt = Nil \/ calcIn.ApprovedAt = Nil)
             => calcOut.value.ReviewTime = 0
        /\ (calcIn.ApprovedAt = Nil \/ calcIn.MergedAt = Nil)
             => calcOut.value.MergeTime = 0

\* an unmerged pull request with every other timestamp set, created after its
\* first commit, has had its durations computed
C23_Witness ==
    /\ calcOut.returned
    /\ calcIn.MergedAt = Nil
    /\ calcIn.FirstCommitAt # Nil
    /\ calcIn.FirstCommitAt < calcIn.CreatedAt
    /\ calcIn.FirstReviewAt # Nil
    /\ calcIn.ApprovedAt # Nil
    /\ calcOut.value.CodingTime > 0


\* two quotients are the same number
sameNumber(x, y) == x.num * y.den = y.num * x.den

\* the mean of the strictly positive values of a duration over the merged
\* pull requests of the input that satisfy a condition, 0 when there is none
RECURSIVE sumOver(_, _)
sumOver(ks, value) ==
    IF ks = {} THEN 0
    ELSE LET k == CHOOSE x \in ks : TRUE
         IN value[k] + sumOver(ks \ {k}, value)

meanOfPositive(Duration(_), Cond(_)) ==
    LET ks == {k \in 1..Len(calcIn.prs) :
                  /\ calcIn.prs[k].MergedAt # Nil
                  /\ Cond(calcIn.prs[k])
                  /\ Duration(calcIn.prs[k]) > 0}
    IN IF ks = {} THEN Zero
       ELSE [num |-> sumOver(ks, [k \in ks |-> Duration(calcIn.prs[k])]),
             den |-> Cardinality(ks)]

anyAuthor(pr) == TRUE

\* C24 as stated: every average of the cycle-time metrics, each of the five
\* duration means and each per-author average cycle time, is the mean over
\* only the items whose value is strictly positive.
C24_MeansOverPositive ==
    calcOut.returned =>
        /\ sameNumber(calcOut.value.AvgCycleTime, meanOfPositive(CycleTimeHours, anyAuthor))
        /\ sameNumber(calcOut.value.AvgCodingTime, meanOfPositive(CodingTimeHours, anyAuthor))
        /\ sameNumber(calcOut.value.AvgPickupTime, meanOfPositive(PickupTimeHours, anyAuthor))
        /\ sameNumber(calcOut.value.AvgReviewTime, meanOfPositive(ReviewTimeHours, anyAuthor))
        /\ sameNumber(calcOut.value.AvgMergeTime, meanOfPositive(MergeTimeHours, anyAuthor))
        /\ \A a \in DOMAIN calcOut.value.ByAuthor :
             sameNumber(calcOut.value.ByAuthor[a].AvgCycleTime,
                        meanOfPositive(CycleTimeHours, LAMBDA pr : pr.Author = a))


\* how many items of a list are stamped in the half-open window [start, end)
stampedInHalfOpen(items, Stamp(_)) ==
    Cardinality({k \in 1..Len(items) :
        /\ Stamp(items[k]) # Nil
        /\ calcIn.startDate <= Stamp(items[k])
        /\ Stamp(items[k]) < calcIn.endDate})

\* C25 as stated: CalculateCycleTime, CalculateReviewMetrics and
\* CalculateDORAMetrics count an item if and only if its timestamp t satisfies
\* start <= t < end, so an item stamped exactly at end is not counted.
C25_HalfOpenWindow ==
    calcOut.returned =>
        /\ calcOut.value.TotalPRs
             = stampedInHalfOpen(calcIn.prs, LAMBDA pr : pr.MergedAt)
        /\ calcOut.value.TotalReviews
             = stampedInHalfOpen(calcIn.reviews, LAMBDA r : r.SubmittedAt)
        /\ calcOut.value.DeploymentCount
             = stampedInHalfOpen(calcIn.deployments, LAMBDA d : d.CreatedAt)
        /\ calcOut.value.TotalChanges
             = stampedInHalfOpen(calcIn.prs, LAMBDA pr : pr.MergedAt)


\* the pull requests of all the repositories of the input, pooled
RECURSIVE pooled(_)
pooled(i) == IF i = 0 THEN <<>> ELSE pooled(i - 1) \o calcIn[i]

\* C22 as stated: each duration average of the merged multi-repository row
\* equals the average computed directly over the pooled raw items of all the
\* repositories for that day.
C22_MergedEqualsPooled ==
    calcOut.returned =>
        LET direct == DailyDurations(pooled(NumRepos))
        IN /\ sameNumber(calcOut.value.AvgCycleTime, direct.AvgCycleTime)
           /\ sameNumber(calcOut.value.AvgCodingTime, direct.AvgCodingTime)
           /\ sameNumber(calcOut.value.AvgPickupTime, direct.AvgPickupTime)
           /\ sameNumber(calcOut.value.AvgReviewTime, direct.AvgReviewTime)
           /\ sameNumber(calcOut.value.AvgMergeTime, direct.AvgMergeTime)


\* the order statistic of the input series at a position counted from 0
orderStatistic(k) == Float64s(calcIn)[k + 1]

\* C26 as stated: for every non-empty series, median <= 90th percentile <=
\* maximum, the 90th percentile of a single-element series is that element,
\* and the 90th percentile lies between the two order statistics around
\* index 0.9 * (n - 1), as a linear interpolation between them does.
C26_MedianP90Max ==
    calcOut.returned =>
        LET n == Len(calcIn)
            lower == (9 * (n - 1)) \div 10
            upper == IF lower + 1 < n THEN lower + 1 ELSE lower
        IN /\ atMost(calcOut.value.Median, calcOut.value.P90)
           /\ atMost(calcOut.value.P90, orderStatistic(n - 1))
           /\ n = 1 => calcOut.value.P90 = calcIn[1]
           /\ atMost(orderStatistic(lower), calcOut.value.P90)
           /\ atMost(calcOut.value.P90, orderStatistic(upper))


\* the three merged items have cycle times of 10h, 50h and 200h, in any order
tenFiftyTwoHundred ==
    /\ Len(calcIn.prs) = 3
    /\ {calcIn.prs[k].MergedAt : k \in 1..3} = {10, 50, 200}

\* the metrics of the scenario but for the sub-score: the mean rounds to 86.7
\* at one decimal, the median is 50 and the 90th percentile is strictly
\* between 50 and 200
scenarioMetrics ==
    /\ 8665 * calcOut.value.AvgCycleTime.den <= 100 * calcOut.value.AvgCycleTime.num
    /\ 100 * calcOut.value.AvgCycleTime.num < 8675 * calcOut.value.AvgCycleTime.den
    /\ calcOut.value.MedianCycleTime = whole(50)
    /\ lessThan(whole(50), calcOut.value.P90CycleTime)
    /\ lessThan(calcOut.value.P90CycleTime, whole(200))

\* C27 as stated: three merged items of cycle times 10h, 50h and 200h give
\* mean 86.7h, median 50h, a 90th percentile strictly between 50h and 200h,
\* and a cycle-time sub-score of 40.
C27_ScenarioScore40 ==
    (calcOut.returned /\ tenFiftyTwoHundred) =>
        (scenarioMetrics /\ calcOut.value.CycleTimeScore = 40)

\* C27 amended: three merged items of cycle times 10h, 50h and 200h give
\* mean 86.7h, median 50h, a 90th percentile strictly between 50h and 200h,
\* and a cycle-time sub-score of 60 (the mean is above 72h and at most 168h).
C27_ScenarioScore60 ==
    (calcOut.returned /\ tenFiftyTwoHundred) =>
        (scenarioMetrics /\ calcOut.value.CycleTimeScore = 60)

\* the scenario has been computed, its items given as 200h, 10h, 50h
C27_Witness ==
    /\ calcOut.returned
    /\ tenFiftyTwoHundred
    /\ calcIn.prs[1].MergedAt = 200
    /\ calcOut.value.CycleTimeScore = 60


\* the sub-scores of the result in the fixed order of the categories, each
\* with the recommendation of its category
byCategory ==
    << <<calcOut.value.CycleTimeScore, Recommendation.cycleTime>>,
       <<calcOut.value.ReviewScore, Recommendation.review>>,
       <<calcOut.value.DeploymentScore, Recommendation.deployment>>,
       <<calcOut.value.QualityScore, Recommendation.quality>> >>

\* C28: each of the four sub-scores lies in [0,100], the overall score is
\* 0.30 cycle + 0.25 review + 0.25 deployment + 0.20 quality and lies in
\* [0,100], and the recommendations are the fixed strings of exactly the
\* categories whose sub-score is below 60, in the order cycle time, review,
\* deployment, quality.
C28_ScoreAndRecommendations ==
    calcOut.returned =>
        LET below == SelectSeq(byCategory, LAMBDA c : c[1] < 60)
        IN /\ \A k \in 1..4 : byCategory[k][1] \in 0..100
           /\ 100 * calcOut.value.OverallScore.num
                = calcOut.value.OverallScore.den
                    * (30 * calcOut.value.CycleTimeScore + 25 * calcOut.value.ReviewScore
                       + 25 * calcOut.value.DeploymentScore + 20 * calcOut.value.QualityScore)
           /\ atMost(Zero, calcOut.value.OverallScore)
           /\ atMost(calcOut.value.OverallScore, whole(100))
           /\ calcOut.value.Recommendations = [k \in 1..Len(below) |-> below[k][2]]

\* a score has been computed with the cycle-time sub-score at exactly 60 (no
\* recommendation) and the review and deployment sub-scores below 60
C28_Witness ==
    /\ calcOut.returned
    /\ calcOut.value.CycleTimeScore = 60
    /\ calcOut.value.ReviewScore < 60
    /\ calcOut.value.DeploymentScore < 60
    /\ calcOut.value.QualityScore = 100
    /\ Len(calcOut.value.Recommendations) = 2


\* an actor is a bot: its name ends with "[bot]" or is an entry of the custom list
botActor(name) ==
    \/ (name # <<>> /\ name[Len(name)] = "[bot]")
    \/ name \in {calcIn.customBotUsernames[k] : k \in 1..Len(calcIn.customBotUsernames)}

\* the positions of the input whose actor is kept under the flags of the request
keptPositions ==
    LET all == [k \in 1..Len(calcIn.actors) |-> k]
    IN IF calcOut.value.bf.excludeBots
       THEN SelectSeq(all, LAMBDA k : ~botActor(calcIn.actors[k]))
       ELSE IF calcOut.value.bf.botsOnly
       THEN SelectSeq(all, LAMBDA k : botActor(calcIn.actors[k]))
       ELSE all

\* C29: with exclude-bots exactly the items whose actor is not a bot are kept,
\* with bots-only exactly the items whose actor is a bot, with neither flag
\* the list is returned unchanged, always in the input order; an actor is a
\* bot iff its name ends with "[bot]" or is an entry of the custom list; pull
\* requests (by author), reviews (by reviewer) and members (by login) are
\* filtered identically.
C29_BotFilter ==
    calcOut.returned =>
        /\ calcOut.value.prs
             = [j \in 1..Len(keptPositions) |-> prsBy(calcIn.actors)[keptPositions[j]]]
        /\ calcOut.value.reviews
             = [j \in 1..Len(keptPositions) |-> reviewsBy(calcIn.actors)[keptPositions[j]]]
        /\ calcOut.value.members
             = [j \in 1..Len(keptPositions) |-> membersBy(calcIn.actors)[keptPositions[j]]]

\* a bots-only request has filtered a list holding a human between a bot by
\* suffix and a bot of the custom list
C29_Witness ==
    /\ calcOut.returned
    /\ calcOut.value.bf.botsOnly
    /\ calcIn.actors = <<<<"dependabot", "[bot]">>, <<"[bot]", "x">>, <<"renovate">>>>
    /\ calcIn.customBotUsernames = <<<<"renovate">>>>
    /\ Len(calcOut.value.prs) = 2
    /\ calcOut.value.prs[2].Number = 3


\* C30 as stated: in every invocation that selected a target, while the
\* collector is being called the store holds a process-start marker of the
\* target, the one this invocation set or the one a concurrent invocation set
\* for the same target, so a crash during collection leaves it for the next
\* invocation's guard check.
C30_MarkerStoredWhileCollecting ==
    \A i \in Invocations :
        pc[i] = "collect" =>
            \E j \in Invocations :
                /\ target[j] # NoTarget
                /\ target[j].ID = target[i].ID
                /\ repoStore[target[i].ID].ProcessStartAt = target[j].ProcessStartAt


\* the calls syncSingleRepo makes on the store after a collection, in order:
\* the method and what it is given
persistenceSteps ==
    <<<<"SaveRepository", "data.Repository">>>>
    \o [k \in DOMAIN EntityClasses |-> <<saveMethod[EntityClasses[k]], EntityClasses[k]>>]
    \o <<<<"SaveRepository", "LastSyncedAt">>>>

\* the calls made after the collection, without what they returned
stepsAttempted ==
    LET made == SelectSeq(ssCalls, LAMBDA c : c[2] # "target")
    IN [k \in DOMAIN made |-> <<made[k][1], made[k][2]>>]

\* C31: after a successful collection the store is called for the repository,
\* the pull requests, the reviews, the deployments, the team members, the daily
\* rollups and the last-successful-sync time, in this order; whatever the calls
\* so far returned the next one is after, and the call has returned only after
\* the last-successful-sync update, which is its last call on the store
C31_StepsInOrder ==
    ssPc \notin {"", "mark", "collect"} /\ ssResult.Error = "" =>
        /\ stepsAttempted = SubSeq(persistenceSteps, 1, Len(stepsAttempted))
        /\ (ssPc = "returned" <=> stepsAttempted = persistenceSteps)
        /\ ssPc # "returned" =>
             ssPc = IF stepsAttempted = <<>> THEN "saveRepository"
                    ELSE IF Len(stepsAttempted) <= Len(EntityClasses)
                         THEN EntityClasses[Len(stepsAttempted)]
                         ELSE "saveLastSynced"

\* C31 witness: the call returned after the repository, the reviews and the
\* daily rollups failed to be saved, and the last call set the sync time
C31_Witness ==
    /\ ssPc = "returned"
    /\ ssResult.Success
    /\ \E k \in DOMAIN ssCalls : ssCalls[k] = <<"SaveRepository", "data.Repository", FALSE>>
    /\ \E k \in DOMAIN ssCalls : ssCalls[k] = <<"SaveReviews", "Reviews", FALSE>>
    /\ \E k \in DOMAIN ssCalls : ssCalls[k] = <<"SaveDailyMetricsBatch", "DailyMetrics", FALSE>>
    /\ ssCalls[Len(ssCalls)] = <<"SaveRepository", "LastSyncedAt", TRUE>>
    /\ ssStore.Repository.LastSyncedAt = SyncedTime
    /\ ssStore.PullRequests = 1 /\ ssStore.Reviews = 0


\* what the store holds of the repository before the invocation
storedBefore ==
    [Repository |-> ssListed, PullRequests |-> 0, Reviews |-> 0, Deployments |-> 0,
     TeamMembers |-> 0, DailyMetrics |-> 0]

\* C32: when the collector returned an error, the result of the repository is a
\* failure that carries the error text, no entity class and no rollup was
\* saved, the stored last-successful-sync time is the one from before the
\* invocation, and the store differs from the one before the invocation in the
\* repository's process-start marker at most
C32_CollectorError ==
    ssPc = "returned" /\ ssResult.Error # "" =>
        /\ ~ssResult.Success
        /\ ssResult.Error = CollectError
        /\ \A k \in DOMAIN EntityClasses : ssStore[EntityClasses[k]] = 0
        /\ ssStore.Repository.LastSyncedAt = ssListed.LastSyncedAt
        /\ ssStore \in {storedBefore,
                        [storedBefore EXCEPT !.Repository.ProcessStartAt = StartTime]}
        /\ \A k \in DOMAIN ssCalls : ssCalls[k][2] = "target"

\* C32 witness: the collector failed for a repository synced before, and the
\* marker of this invocation is the one difference in the store
C32_Witness ==
    /\ ssPc = "returned"
    /\ ssResult = [Success |-> FALSE, Error |-> CollectError]
    /\ ssListed.LastSyncedAt # Nil
    /\ ssStore # storedBefore
    /\ ssStore.Repository.ProcessStartAt = StartTime


\* C33: an invocation whose AcquireSyncLock failed answers "skipped" in the
\* step of the attempt and is done: that step leaves the stored lease, the
\* repositories and the cache as they were, and the invocation never lists,
\* selects, marks, collects, saves or releases
C33_SkippedDoesNothing ==
    [][\A i \in Invocations :
          /\ outcome[i] # "skipped" /\ outcome'[i] = "skipped" =>
                /\ pc[i] = "idle" /\ pc'[i] = "done"
                /\ lock # NoLock /\ lock.LockedBy # i
                /\ lock' = lock
                /\ repoStore' = repoStore
                /\ picks' = picks
                /\ cacheVars' = cacheVars
          /\ outcome[i] = "skipped" =>
                /\ pc[i] = "done" /\ pc'[i] = "done"
                /\ outcome'[i] = "skipped"
                /\ target'[i] = NoTarget
                /\ released'[i] = "none"
                /\ ~markSaved'[i]
                /\ \A k \in DOMAIN picks' : picks'[k][1] # i]_vars

\* C33 witness: an invocation was skipped while the other, whose lease is the
\* stored one, is collecting
C33_Witness ==
    \E i, j \in Invocations :
        /\ outcome[i] = "skipped" /\ pc[i] = "done"
        /\ pc[j] = "collect"
        /\ lock # NoLock /\ lock = lease[j]


\* C34: a GET that arrives when Invalidate has returned and the goroutine it
\* started for the durable tier has ended is not answered from the memory tier
\* or the durable tier with a payload computed before that call of Invalidate
C34_NothingFromBeforeInvalidate ==
    [][(/\ dataVersion >= 1
        /\ deletesInFlight = EmptyBag
        /\ lastEvents' = after("get")
        /\ lastResp' # lastResp
        /\ lastResp'.tier \in {"memory", "datastore"})
       => lastResp'.body[2] = dataVersion]_vars


\* the time the handler computed a payload, in a run where the data changes
\* with every step of the clock
producedAt(body) == body[2] * CacheTickMinutes

\* C38: a response served from the memory tier or the durable tier was produced
\* by the handler at most one TTL before it is served
C38_ServedWithinTTL ==
    [][(/\ lastEvents' = after("get")
        /\ lastResp' # lastResp
        /\ lastResp'.tier \in {"memory", "datastore"})
       => cacheNow - producedAt(lastResp'.body) <= cacheTTLMinutes]_vars


\* C35: the stored last-successful-sync time of a repository, once set, is
\* set after every step of every invocation, and to a time that is not earlier
C35_LastSyncedKept ==
    [][\A id \in RepoIds :
          repoStore[id].LastSyncedAt # Nil =>
              /\ repoStore'[id].LastSyncedAt # Nil
              /\ repoStore'[id].LastSyncedAt >= repoStore[id].LastSyncedAt]_vars


sameRow(x, y) ==
    /\ DOMAIN x = DOMAIN y
    /\ \A f \in DOMAIN x :
         IF f \in {"AvgCycleTime", "AvgCodingTime", "AvgPickupTime", "AvgReviewTime",
                   "AvgMergeTime", "AvgReviewsPerPR"}
         THEN sameNumber(x[f], y[f])
         ELSE x[f] = y[f]

\* C39: the merged row of a date has the same value in every field for every
\* order in which the repositories are processed
C39_OrderIndependent ==
    calcOut.returned =>
        \A p \in RepoOrders :
            sameRow(calcOut.value,
                    collectDailyMetricsOfDate([k \in 1..NumRepos |-> calcIn.rows[p[k]]]))

====
